---------------------------- MODULE Spec2Model ----------------------------
(***************************************************************************)
(* ShabdSetu: the translation service of src/Backend/main.py.              *)
(*                                                                         *)
(* A text is the sequence of its Unicode code points (Python's ord of each *)
(* character of the str), so that the script tests, the case folding, the  *)
(* trimming and the substring tests of the code are computed on the same   *)
(* data as in the program.  A language tag is a text too: the caller may   *)
(* send any string.  None is the empty-handed return value of Python.      *)
(***************************************************************************)
EXTENDS Integers, Sequences, FiniteSets, TLC

\* Python's None: a value that no text equals (no code point is negative).
None == <<-1>>

(***************************************************************************)
(* str methods, on sequences of code points.                               *)
(***************************************************************************)

\* The least and the greatest element of a non-empty set of integers.
MinOf(S) == CHOOSE m \in S : \A n \in S : m <= n
MaxOf(S) == CHOOSE m \in S : \A n \in S : n <= m

\* str.isspace of one character: the code points Python treats as whitespace
\* in str.strip() and str.split().
IsSpace(c) ==
  \/ (9 <= c /\ c <= 13)
  \/ (28 <= c /\ c <= 32)
  \/ c = 133
  \/ c = 160
  \/ c = 5760
  \/ (8192 <= c /\ c <= 8202)
  \/ c = 8232
  \/ c = 8233
  \/ c = 8239
  \/ c = 8287
  \/ c = 12288

\* str.lower of one character.  The texts of this model hold ASCII and
\* Devanagari characters only; Devanagari has no case.
LowerChar(c) == IF c \in 65..90 THEN c + 32 ELSE c

\* str.upper of one character (same alphabet).
UpperChar(c) == IF c \in 97..122 THEN c - 32 ELSE c

\* s.lower()
Lower(s) == [i \in 1..Len(s) |-> LowerChar(s[i])]

\* s.upper()
Upper(s) == [i \in 1..Len(s) |-> UpperChar(s[i])]

\* The index of the first character at or after i that is not whitespace
\* (Len(s) + 1 when there is none), and of the last one at or before i (0
\* when there is none).
RECURSIVE FirstNonSpace(_, _)
FirstNonSpace(s, i) ==
  IF i > Len(s) THEN i
  ELSE IF IsSpace(s[i]) THEN FirstNonSpace(s, i + 1) ELSE i
RECURSIVE LastNonSpace(_, _)
LastNonSpace(s, i) ==
  IF i < 1 THEN i
  ELSE IF IsSpace(s[i]) THEN LastNonSpace(s, i - 1) ELSE i

\* s.strip()
Strip(s) == SubSeq(s, FirstNonSpace(s, 1), LastNonSpace(s, Len(s)))

\* sub occurs in s at offset i: s[i + 1 .. i + len(sub)] == sub
OccursAt(sub, s, i) == \A j \in 1..Len(sub) : s[i + j] = sub[j]

\* sub in s
Contains(sub, s) ==
  \E i \in 0..(Len(s) - Len(sub)) : OccursAt(sub, s, i)

\* s.replace(old, new), old non-empty: every non-overlapping occurrence,
\* leftmost first.
RECURSIVE ReplaceFrom(_, _, _, _)
ReplaceFrom(s, old, new, i) ==
  IF i + Len(old) > Len(s) THEN SubSeq(s, i + 1, Len(s))
  ELSE IF OccursAt(old, s, i)
       THEN new \o ReplaceFrom(s, old, new, i + Len(old))
       ELSE <<s[i + 1]>> \o ReplaceFrom(s, old, new, i + 1)
Replace(s, old, new) == ReplaceFrom(s, old, new, 0)

\* The first index at or after i of a whitespace character of s
\* (Len(s) + 1 when there is none).
RECURSIVE FirstSpace(_, _)
FirstSpace(s, i) ==
  IF i > Len(s) THEN i
  ELSE IF IsSpace(s[i]) THEN i ELSE FirstSpace(s, i + 1)

\* s.split(): the maximal runs of non-whitespace characters, in order.
RECURSIVE SplitFrom(_, _)
SplitFrom(s, i) ==
  LET b == FirstNonSpace(s, i)
      e == FirstSpace(s, b)
  IN  IF b > Len(s) THEN <<>>
      ELSE <<SubSeq(s, b, e - 1)>> \o SplitFrom(s, e)
Split(s) == SplitFrom(s, 1)

\* ' '.join(words)
RECURSIVE JoinSpace(_)
JoinSpace(words) ==
  IF words = <<>> THEN <<>>
  ELSE IF Len(words) = 1 THEN words[1]
       ELSE words[1] \o <<32>> \o JoinSpace(Tail(words))

\* A range that starts one code point late: U+0901..U+097F.
IsDevanagari_late(c) == 2305 <= c /\ c <= 2431

\* re.search(r'[ऀ-ॿ]', s): a code point of the Devanagari block.
IsDevanagari(c) == 2304 <= c /\ c <= 2431
HasDevanagari(s) == \E i \in 1..Len(s) : IsDevanagari(s[i])

\* The index of the first entry of a table (a sequence of <<key, value>>)
\* whose key is k, and 0 when there is none: `k in d` and `d[k]`.
IndexOf(table, k) ==
  LET hits == {i \in 1..Len(table) : table[i][1] = k}
  IN  IF hits = {} THEN 0 ELSE MinOf(hits)
HasKey(table, k) == IndexOf(table, k) # 0
Lookup(table, k) == table[IndexOf(table, k)][2]

\* x in list
InList(list, x) == \E i \in 1..Len(list) : list[i] = x

\* detect_language: romanized Marathi clue words (main.py:120-132), in list order.
marathi_words ==
  <<
    <<110, 97, 109, 97, 115, 107, 97, 114>>,  \* 'namaskar'
    <<110, 97, 109, 97, 115, 116, 101>>,  \* 'namaste'
    <<100, 104, 97, 110, 121, 97, 119, 97, 100>>,  \* 'dhanyawad'
    <<100, 104, 97, 110, 121, 97, 98, 97, 100>>,  \* 'dhanyabad'
    <<107, 97, 115, 97>>,  \* 'kasa'
    <<107, 97, 115, 101>>,  \* 'kase'
    <<107, 97, 121>>,  \* 'kay'
    <<107, 117, 116, 104, 101>>,  \* 'kuthe'
    <<107, 105, 116, 105>>,  \* 'kiti'
    <<109, 97, 106, 104, 101>>,  \* 'majhe'
    <<116, 117, 109, 99, 104, 101>>,  \* 'tumche'
    <<97, 104, 101>>,  \* 'ahe'
    <<97, 104, 101, 115>>,  \* 'ahes'
    <<97, 104, 97, 116>>,  \* 'ahat'
    <<112, 97, 117>>,  \* 'pau'
    <<112, 97, 104, 105, 106, 101>>,  \* 'pahije'
    <<112, 97, 110, 105>>,  \* 'pani'
    <<97, 110, 110, 97>>,  \* 'anna'
    <<109, 97, 100, 97, 100>>,  \* 'madad'
    <<109, 97, 100, 100, 97, 116>>,  \* 'maddat'
    <<104, 111, 121, 101>>,  \* 'hoye'
    <<110, 97, 104, 105>>,  \* 'nahi'
    <<107, 114, 117, 112, 97>>,  \* 'krupa'
    <<109, 97, 97, 102>>,  \* 'maaf'
    <<107, 97, 114, 97>>,  \* 'kara'
    <<112, 117, 100, 104, 105, 108>>,  \* 'pudhil'
    <<109, 97, 103, 97>>,  \* 'maga'
    <<112, 117, 100, 104, 101>>,  \* 'pudhe'
    <<109, 97, 103, 117, 110>>,  \* 'magun'
    <<118, 101, 108>>,  \* 'vel'
    <<97, 97, 106>>,  \* 'aaj'
    <<117, 100, 121, 97>>,  \* 'udya'
    <<107, 97, 108>>,  \* 'kal'
    <<115, 97, 110, 100, 104, 121, 97>>,  \* 'sandhya'
    <<114, 97, 116, 114, 105>>,  \* 'ratri'
    <<115, 97, 107, 97, 108>>,  \* 'sakal'
    <<100, 117, 112, 97, 114, 105>>,  \* 'dupari'
    <<116, 117, 109, 105>>,  \* 'tumi'
    <<116, 117, 109, 104, 105>>,  \* 'tumhi'
    <<109, 105>>,  \* 'mi'
    <<97, 109, 104, 105>>,  \* 'amhi'
    <<116, 121, 97, 110, 99, 104, 101>>,  \* 'tyanche'
    <<116, 121, 97, 99, 104, 105>>,  \* 'tyachi'
    <<109, 97, 108, 97>>,  \* 'mala'
    <<116, 117, 108, 97>>,  \* 'tula'
    <<97, 97, 104, 101>>,  \* 'aahe'
    <<97, 97, 104, 101, 116>>,  \* 'aahet'
    <<97, 97, 104, 97, 116>>,  \* 'aahat'
    <<110, 97, 118, 121, 97, 110, 101>>,  \* 'navyane'
    <<106, 117, 110, 97>>,  \* 'juna'
    <<109, 111, 116, 116, 104, 97>>,  \* 'mottha'
    <<99, 104, 111, 116, 97>>,  \* 'chota'
    <<103, 104, 97, 114, 97>>,  \* 'ghara'
    <<103, 104, 97, 114>>,  \* 'ghar'
    <<103, 97, 111, 110>>,  \* 'gaon'
    <<115, 104, 97, 104, 97, 114>>,  \* 'shahar'
    <<114, 97, 115, 116, 97>>,  \* 'rasta'
    <<100, 117, 107, 97, 110>>,  \* 'dukan'
    <<115, 99, 104, 111, 111, 108>>,  \* 'school'
    <<110, 97, 118>>,  \* 'nav'
    <<115, 97, 97, 116, 104, 105>>,  \* 'saathi'
    <<98, 97, 114, 111, 98, 97, 114>>,  \* 'barobar'
    <<115, 104, 105, 118, 97, 121>>,  \* 'shivay'
    <<109, 97, 100, 104, 101>>,  \* 'madhe'
    <<118, 97, 114>>,  \* 'var'
    <<112, 97, 115, 117, 110>>,  \* 'pasun'
    <<99, 104, 121, 97>>,  \* 'chya'
    <<112, 117, 100, 104, 101>>,  \* 'pudhe'
    <<109, 97, 103, 104, 101>>,  \* 'maghe'
    <<118, 97, 114, 116, 105>>,  \* 'varti'
    <<107, 104, 97, 108, 105>>,  \* 'khali'
    <<106, 101, 118, 97, 110>>,  \* 'jevan'
    <<107, 97, 97, 109>>,  \* 'kaam'
    <<115, 104, 105, 107, 97, 116>>,  \* 'shikat'
    <<112, 114, 111, 103, 114, 97, 109, 109, 105, 110, 103>>,  \* 'programming'
    <<99, 111, 109, 112, 117, 116, 101, 114>>,  \* 'computer'
    <<115, 111, 102, 116, 119, 97, 114, 101>>,  \* 'software'
    <<101, 110, 103, 105, 110, 101, 101, 114, 105, 110, 103>>  \* 'engineering'
  >>

\* detect_language: romanized Marathi phrases (main.py:135-140), in list order.
marathi_phrases ==
  <<
    <<116, 117, 109, 104, 105, 32, 107, 97, 115, 97, 32, 97, 104, 97, 116>>,  \* 'tumhi kasa ahat'
    <<116, 117, 109, 104, 105, 32, 107, 97, 115, 101, 32, 97, 104, 97, 116>>,  \* 'tumhi kase ahat'
    <<107, 97, 115, 97, 32, 97, 104, 97, 116>>,  \* 'kasa ahat'
    <<107, 97, 115, 101, 32, 97, 104, 97, 116>>,  \* 'kase ahat'
    <<109, 97, 106, 104, 101, 32, 110, 97, 118>>,  \* 'majhe nav'
    <<109, 97, 122, 97, 32, 110, 97, 118>>,  \* 'maza nav'
    <<116, 117, 109, 99, 104, 101, 32, 110, 97, 118>>,  \* 'tumche nav'
    <<100, 104, 97, 110, 121, 97, 119, 97, 100, 32, 116, 117, 109, 104, 105>>,  \* 'dhanyawad tumhi'
    <<110, 97, 109, 97, 115, 107, 97, 114, 32, 116, 117, 109, 104, 105>>,  \* 'namaskar tumhi'
    <<109, 97, 97, 102, 32, 107, 97, 114, 97>>,  \* 'maaf kara'
    <<107, 114, 117, 112, 97, 32, 107, 97, 114, 97>>,  \* 'krupa kara'
    <<112, 114, 111, 103, 114, 97, 109, 109, 105, 110, 103, 32, 115, 104, 105, 107, 97, 116>>,  \* 'programming shikat'
    <<109, 97, 108, 97, 32, 112, 114, 111, 103, 114, 97, 109, 109, 105, 110, 103, 32, 115, 104, 105, 107, 97, 121, 99, 104, 101>>,  \* 'mala programming shikayche'
    <<109, 105, 32, 112, 114, 111, 103, 114, 97, 109, 109, 105, 110, 103, 32, 115, 104, 105, 107, 116, 111>>,  \* 'mi programming shikto'
    <<99, 111, 109, 112, 117, 116, 101, 114, 32, 99, 104, 97, 108, 97, 118>>  \* 'computer chalav'
  >>

\* advanced_language_detection: Marathi indicators (main.py:223-223), in list order.
marathi_indicators ==
  <<
    <<107, 97, 115, 97>>,  \* 'kasa'
    <<97, 104, 97, 116>>,  \* 'ahat'
    <<110, 97, 109, 97, 115, 107, 97, 114>>,  \* 'namaskar'
    <<100, 104, 97, 110, 121, 97, 119, 97, 100>>,  \* 'dhanyawad'
    <<116, 117, 109, 104, 105>>,  \* 'tumhi'
    <<109, 97, 106, 104, 101>>,  \* 'majhe'
    <<97, 104, 101>>,  \* 'ahe'
    <<97, 97, 104, 101>>  \* 'aahe'
  >>

\* romanized_to_devanagari: manual map (main.py:284-299), in the dict's iteration order;
\* each entry is <<key, value>>, a text being its sequence of code points.
romanized_to_devanagari_map ==
  <<
    << <<110, 97, 109, 97, 115, 107, 97, 114>>,
       <<2344, 2350, 2360, 2381, 2325, 2366, 2352>> >>,  \* 'namaskar': 'नमस्कार'
    << <<110, 97, 109, 97, 115, 116, 101>>,
       <<2344, 2350, 2360, 2381, 2340, 2375>> >>,  \* 'namaste': 'नमस्ते'
    << <<100, 104, 97, 110, 121, 97, 119, 97, 100>>,
       <<2343, 2344, 2381, 2351, 2357, 2366, 2342>> >>,  \* 'dhanyawad': 'धन्यवाद'
    << <<109, 97, 106, 104, 101, 32, 110, 97, 118>>,
       <<2350, 2366, 2333, 2375, 32, 2344, 2366, 2357>> >>,  \* 'majhe nav': 'माझे नाव'
    << <<109, 97, 122, 97, 32, 110, 97, 118>>,
       <<2350, 2366, 2333, 2306, 32, 2344, 2366, 2357>> >>,  \* 'maza nav': 'माझं नाव'
    << <<116, 117, 109, 99, 104, 101, 32, 110, 97, 118>>,
       <<2340, 2369, 2350, 2330, 2306, 32, 2344, 2366, 2357>> >>,  \* 'tumche nav': 'तुमचं नाव'
    << <<116, 117, 109, 104, 105, 32, 107, 97, 115, 97, 32, 97, 104, 97, 116>>,
       <<2340, 2369, 2350, 2381, 2361, 2368, 32, 2325, 2360, 2375, 32, 2310, 2361, 2366, 2340>> >>,  \* 'tumhi kasa ahat': 'तुम्ही कसे आहात'
    << <<107, 97, 115, 97, 32, 97, 104, 97, 116>>,
       <<2325, 2360, 2375, 32, 2310, 2361, 2366, 2340>> >>,  \* 'kasa ahat': 'कसे आहात'
    << <<109, 105, 32, 112, 114, 111, 103, 114, 97, 109, 109, 105, 110, 103, 32, 115, 104, 105, 107, 97, 116, 32, 97, 104, 101>>,
       <<2350, 2368, 32, 2346, 2381, 2352, 2379, 2327, 2381, 2352, 2366, 2350, 2367, 2306, 2327, 32, 2358, 2367, 2325, 2340, 32, 2310, 2361, 2375>> >>,  \* 'mi programming shikat ahe': 'मी प्रोग्रामिंग शिकत आहे'
    << <<112, 114, 111, 103, 114, 97, 109, 109, 105, 110, 103, 32, 115, 104, 105, 107, 97, 116>>,
       <<2346, 2381, 2352, 2379, 2327, 2381, 2352, 2366, 2350, 2367, 2306, 2327, 32, 2358, 2367, 2325, 2340>> >>,  \* 'programming shikat': 'प्रोग्रामिंग शिकत'
    << <<97, 97, 104, 101>>,
       <<2310, 2361, 2375>> >>,  \* 'aahe': 'आहे'
    << <<97, 104, 101>>,
       <<2310, 2361, 2375>> >>,  \* 'ahe': 'आहे'
    << <<97, 104, 97, 116>>,
       <<2310, 2361, 2366, 2340>> >>,  \* 'ahat': 'आहात'
    << <<107, 97, 115, 97>>,
       <<2325, 2360, 2366>> >>,  \* 'kasa': 'कसा'
    << <<107, 97, 121>>,
       <<2325, 2366, 2351>> >>,  \* 'kay': 'काय'
    << <<116, 117, 109, 104, 105>>,
       <<2340, 2369, 2350, 2381, 2361, 2368>> >>,  \* 'tumhi': 'तुम्ही'
    << <<109, 105>>,
       <<2350, 2368>> >>,  \* 'mi': 'मी'
    << <<109, 97, 108, 97>>,
       <<2350, 2354, 2366>> >>,  \* 'mala': 'मला'
    << <<104, 111, 121, 101>>,
       <<2361, 2379, 2351>> >>,  \* 'hoye': 'होय'
    << <<110, 97, 104, 105>>,
       <<2344, 2366, 2361, 2368>> >>,  \* 'nahi': 'नाही'
    << <<112, 114, 111, 103, 114, 97, 109, 109, 105, 110, 103>>,
       <<2346, 2381, 2352, 2379, 2327, 2381, 2352, 2366, 2350, 2367, 2306, 2327>> >>,  \* 'programming': 'प्रोग्रामिंग'
    << <<99, 111, 109, 112, 117, 116, 101, 114>>,
       <<2360, 2306, 2327, 2339, 2325>> >>,  \* 'computer': 'संगणक'
    << <<115, 111, 102, 116, 119, 97, 114, 101>>,
       <<2360, 2377, 2347, 2381, 2335, 2357, 2375, 2309, 2352>> >>  \* 'software': 'सॉफ्टवेअर'
  >>

\* translate_with_dictionary: English to Marathi (main.py:920-966), in the dict's iteration order;
\* each entry is <<key, value>>, a text being its sequence of code points.
en_to_mr ==
  <<
    << <<104, 101, 108, 108, 111>>,
       <<2344, 2350, 2360, 2381, 2325, 2366, 2352>> >>,  \* 'hello': 'नमस्कार'
    << <<104, 105>>,
       <<2344, 2350, 2360, 2381, 2325, 2366, 2352>> >>,  \* 'hi': 'नमस्कार'
    << <<104, 101, 108, 108, 111, 32, 104, 111, 119, 32, 97, 114, 101, 32, 121, 111, 117>>,
       <<2344, 2350, 2360, 2381, 2325, 2366, 2352, 32, 2340, 2369, 2350, 2381, 2361, 2368, 32, 2325, 2360, 2375, 32, 2310, 2361, 2366, 2340>> >>,  \* 'hello how are you': 'नमस्कार तुम्ही कसे आहात'
    << <<104, 111, 119, 32, 97, 114, 101, 32, 121, 111, 117>>,
       <<2340, 2369, 2350, 2381, 2361, 2368, 32, 2325, 2360, 2375, 32, 2310, 2361, 2366, 2340>> >>,  \* 'how are you': 'तुम्ही कसे आहात'
    << <<104, 111, 119, 32, 97, 114, 101, 32, 121, 111, 117, 63>>,
       <<2340, 2369, 2350, 2381, 2361, 2368, 32, 2325, 2360, 2375, 32, 2310, 2361, 2366, 2340, 63>> >>,  \* 'how are you?': 'तुम्ही कसे आहात?'
    << <<105, 32, 97, 109, 32, 102, 105, 110, 101>>,
       <<2350, 2368, 32, 2336, 2368, 2325, 32, 2310, 2361, 2375>> >>,  \* 'i am fine': 'मी ठीक आहे'
    << <<105, 32, 97, 109, 32, 103, 111, 111, 100>>,
       <<2350, 2368, 32, 2330, 2366, 2306, 2327, 2354, 2366, 32, 2310, 2361, 2375>> >>,  \* 'i am good': 'मी चांगला आहे'
    << <<103, 111, 111, 100, 32, 109, 111, 114, 110, 105, 110, 103>>,
       <<2360, 2369, 2346, 2381, 2352, 2349, 2366, 2340>> >>,  \* 'good morning': 'सुप्रभात'
    << <<103, 111, 111, 100, 32, 101, 118, 101, 110, 105, 110, 103>>,
       <<2358, 2369, 2349, 32, 2360, 2306, 2343, 2381, 2351, 2366>> >>,  \* 'good evening': 'शुभ संध्या'
    << <<103, 111, 111, 100, 32, 110, 105, 103, 104, 116>>,
       <<2358, 2369, 2349, 32, 2352, 2366, 2340, 2381, 2352, 2368>> >>,  \* 'good night': 'शुभ रात्री'
    << <<103, 111, 111, 100, 32, 97, 102, 116, 101, 114, 110, 111, 111, 110>>,
       <<2358, 2369, 2349, 32, 2342, 2369, 2346, 2366, 2352>> >>,  \* 'good afternoon': 'शुभ दुपार'
    << <<116, 104, 97, 110, 107, 32, 121, 111, 117>>,
       <<2343, 2344, 2381, 2351, 2357, 2366, 2342>> >>,  \* 'thank you': 'धन्यवाद'
    << <<116, 104, 97, 110, 107, 32, 121, 111, 117, 32, 115, 111, 32, 109, 117, 99, 104>>,
       <<2326, 2370, 2346, 32, 2326, 2370, 2346, 32, 2343, 2344, 2381, 2351, 2357, 2366, 2342>> >>,  \* 'thank you so much': 'खूप खूप धन्यवाद'
    << <<116, 104, 97, 110, 107, 115>>,
       <<2343, 2344, 2381, 2351, 2357, 2366, 2342>> >>,  \* 'thanks': 'धन्यवाद'
    << <<112, 108, 101, 97, 115, 101>>,
       <<2325, 2371, 2346, 2351, 2366>> >>,  \* 'please': 'कृपया'
    << <<121, 101, 115>>,
       <<2361, 2379, 2351>> >>,  \* 'yes': 'होय'
    << <<110, 111>>,
       <<2344, 2366, 2361, 2368>> >>,  \* 'no': 'नाही'
    << <<115, 111, 114, 114, 121>>,
       <<2350, 2366, 2347, 32, 2325, 2352, 2366>> >>,  \* 'sorry': 'माफ करा'
    << <<101, 120, 99, 117, 115, 101, 32, 109, 101>>,
       <<2350, 2366, 2347, 32, 2325, 2352, 2366>> >>,  \* 'excuse me': 'माफ करा'
    << <<119, 104, 97, 116, 32, 105, 115, 32, 121, 111, 117, 114, 32, 110, 97, 109, 101>>,
       <<2340, 2369, 2350, 2330, 2375, 32, 2344, 2366, 2357, 32, 2325, 2366, 2351, 32, 2310, 2361, 2375>> >>,  \* 'what is your name': 'तुमचे नाव काय आहे'
    << <<119, 104, 97, 116, 32, 105, 115, 32, 121, 111, 117, 114, 32, 110, 97, 109, 101, 63>>,
       <<2340, 2369, 2350, 2330, 2375, 32, 2344, 2366, 2357, 32, 2325, 2366, 2351, 32, 2310, 2361, 2375, 63>> >>,  \* 'what is your name?': 'तुमचे नाव काय आहे?'
    << <<109, 121, 32, 110, 97, 109, 101, 32, 105, 115>>,
       <<2350, 2366, 2333, 2375, 32, 2344, 2366, 2357>> >>,  \* 'my name is': 'माझे नाव'
    << <<110, 105, 99, 101, 32, 116, 111, 32, 109, 101, 101, 116, 32, 121, 111, 117>>,
       <<2340, 2369, 2350, 2381, 2361, 2366, 2354, 2366, 32, 2349, 2375, 2335, 2370, 2344, 32, 2310, 2344, 2306, 2342, 32, 2333, 2366, 2354, 2366>> >>,  \* 'nice to meet you': 'तुम्हाला भेटून आनंद झाला'
    << <<103, 111, 111, 100, 98, 121, 101>>,
       <<2344, 2367, 2352, 2379, 2346>> >>,  \* 'goodbye': 'निरोप'
    << <<98, 121, 101>>,
       <<2344, 2367, 2352, 2379, 2346>> >>,  \* 'bye': 'निरोप'
    << <<115, 101, 101, 32, 121, 111, 117, 32, 108, 97, 116, 101, 114>>,
       <<2346, 2369, 2344, 2381, 2361, 2366, 32, 2349, 2375, 2335, 2370>> >>,  \* 'see you later': 'पुन्हा भेटू'
    << <<119, 104, 101, 114, 101>>,
       <<2325, 2369, 2336, 2375>> >>,  \* 'where': 'कुठे'
    << <<119, 104, 97, 116>>,
       <<2325, 2366, 2351>> >>,  \* 'what': 'काय'
    << <<119, 104, 101, 110>>,
       <<2325, 2375, 2357, 2381, 2361, 2366>> >>,  \* 'when': 'केव्हा'
    << <<104, 111, 119>>,
       <<2325, 2360, 2375>> >>,  \* 'how': 'कसे'
    << <<119, 104, 121>>,
       <<2325, 2366>> >>,  \* 'why': 'का'
    << <<119, 97, 116, 101, 114>>,
       <<2346, 2366, 2339, 2368>> >>,  \* 'water': 'पाणी'
    << <<102, 111, 111, 100>>,
       <<2309, 2344, 2381, 2344>> >>,  \* 'food': 'अन्न'
    << <<104, 101, 108, 112>>,
       <<2350, 2342, 2340>> >>,  \* 'help': 'मदत'
    << <<105, 32, 110, 101, 101, 100, 32, 104, 101, 108, 112>>,
       <<2350, 2354, 2366, 32, 2350, 2342, 2340, 32, 2361, 2357, 2368>> >>,  \* 'i need help': 'मला मदत हवी'
    << <<119, 104, 101, 114, 101, 32, 105, 115, 32, 116, 104, 101, 32, 98, 97, 116, 104, 114, 111, 111, 109>>,
       <<2360, 2381, 2344, 2366, 2344, 2327, 2371, 2361, 32, 2325, 2369, 2336, 2375, 32, 2310, 2361, 2375>> >>,  \* 'where is the bathroom': 'स्नानगृह कुठे आहे'
    << <<104, 111, 119, 32, 109, 117, 99, 104>>,
       <<2325, 2367, 2340, 2368>> >>,  \* 'how much': 'किती'
    << <<104, 111, 119, 32, 109, 117, 99, 104, 63>>,
       <<2325, 2367, 2340, 2368, 63>> >>,  \* 'how much?': 'किती?'
    << <<116, 111, 100, 97, 121>>,
       <<2310, 2332>> >>,  \* 'today': 'आज'
    << <<116, 111, 109, 111, 114, 114, 111, 119>>,
       <<2313, 2342, 2381, 2351, 2366>> >>,  \* 'tomorrow': 'उद्या'
    << <<121, 101, 115, 116, 101, 114, 100, 97, 121>>,
       <<2325, 2366, 2354>> >>,  \* 'yesterday': 'काल'
    << <<105, 32, 119, 97, 110, 116, 32, 116, 111, 32, 108, 101, 97, 114, 110, 32, 112, 114, 111, 103, 114, 97, 109, 109, 105, 110, 103>>,
       <<2350, 2354, 2366, 32, 2346, 2381, 2352, 2379, 2327, 2381, 2352, 2366, 2350, 2367, 2306, 2327, 32, 2358, 2367, 2325, 2366, 2351, 2330, 2375, 32, 2310, 2361, 2375>> >>,  \* 'i want to learn programming': 'मला प्रोग्रामिंग शिकायचे आहे'
    << <<105, 32, 108, 111, 118, 101, 32, 112, 114, 111, 103, 114, 97, 109, 109, 105, 110, 103>>,
       <<2350, 2354, 2366, 32, 2346, 2381, 2352, 2379, 2327, 2381, 2352, 2366, 2350, 2367, 2306, 2327, 32, 2310, 2357, 2337, 2340, 2375>> >>,  \* 'i love programming': 'मला प्रोग्रामिंग आवडते'
    << <<99, 111, 109, 112, 117, 116, 101, 114>>,
       <<2360, 2306, 2327, 2339, 2325>> >>,  \* 'computer': 'संगणक'
    << <<115, 111, 102, 116, 119, 97, 114, 101>>,
       <<2360, 2377, 2347, 2381, 2335, 2357, 2375, 2309, 2352>> >>  \* 'software': 'सॉफ्टवेअर'
  >>

\* translate_with_dictionary: Marathi (Devanagari) to English (main.py:969-1009), in the dict's iteration order;
\* each entry is <<key, value>>, a text being its sequence of code points.
mr_to_en ==
  <<
    << <<2344, 2350, 2360, 2381, 2325, 2366, 2352>>,
       <<104, 101, 108, 108, 111>> >>,  \* 'नमस्कार': 'hello'
    << <<2340, 2369, 2350, 2381, 2361, 2368, 32, 2325, 2360, 2375, 32, 2310, 2361, 2366, 2340>>,
       <<104, 111, 119, 32, 97, 114, 101, 32, 121, 111, 117>> >>,  \* 'तुम्ही कसे आहात': 'how are you'
    << <<2340, 2369, 2350, 2381, 2361, 2368, 32, 2325, 2360, 2375, 32, 2310, 2361, 2366, 2340, 63>>,
       <<104, 111, 119, 32, 97, 114, 101, 32, 121, 111, 117, 63>> >>,  \* 'तुम्ही कसे आहात?': 'how are you?'
    << <<2350, 2368, 32, 2325, 2366, 2350, 32, 2325, 2352, 2340, 32, 2310, 2361, 2375>>,
       <<73, 32, 97, 109, 32, 119, 111, 114, 107, 105, 110, 103>> >>,  \* 'मी काम करत आहे': 'I am working'
    << <<2350, 2368, 32, 2358, 2366, 2355, 2375, 2340, 32, 2332, 2366, 2340, 2379, 2351>>,
       <<73, 32, 97, 109, 32, 103, 111, 105, 110, 103, 32, 116, 111, 32, 115, 99, 104, 111, 111, 108>> >>,  \* 'मी शाळेत जातोय': 'I am going to school'
    << <<2350, 2368, 32, 2328, 2352, 2368, 32, 2332, 2366, 2340, 2379, 2351>>,
       <<73, 32, 97, 109, 32, 103, 111, 105, 110, 103, 32, 104, 111, 109, 101>> >>,  \* 'मी घरी जातोय': 'I am going home'
    << <<2350, 2354, 2366, 32, 2346, 2381, 2352, 2379, 2327, 2381, 2352, 2366, 2350, 2367, 2306, 2327, 32, 2358, 2367, 2325, 2366, 2351, 2330, 2375, 32, 2310, 2361, 2375>>,
       <<73, 32, 119, 97, 110, 116, 32, 116, 111, 32, 108, 101, 97, 114, 110, 32, 112, 114, 111, 103, 114, 97, 109, 109, 105, 110, 103>> >>,  \* 'मला प्रोग्रामिंग शिकायचे आहे': 'I want to learn programming'
    << <<2350, 2354, 2366, 32, 2346, 2381, 2352, 2379, 2327, 2381, 2352, 2366, 2350, 2367, 2306, 2327, 32, 2310, 2357, 2337, 2340, 2375>>,
       <<73, 32, 108, 111, 118, 101, 32, 112, 114, 111, 103, 114, 97, 109, 109, 105, 110, 103>> >>,  \* 'मला प्रोग्रामिंग आवडते': 'I love programming'
    << <<2360, 2369, 2346, 2381, 2352, 2349, 2366, 2340>>,
       <<103, 111, 111, 100, 32, 109, 111, 114, 110, 105, 110, 103>> >>,  \* 'सुप्रभात': 'good morning'
    << <<2358, 2369, 2349, 32, 2360, 2306, 2343, 2381, 2351, 2366>>,
       <<103, 111, 111, 100, 32, 101, 118, 101, 110, 105, 110, 103>> >>,  \* 'शुभ संध्या': 'good evening'
    << <<2358, 2369, 2349, 32, 2352, 2366, 2340, 2381, 2352, 2368>>,
       <<103, 111, 111, 100, 32, 110, 105, 103, 104, 116>> >>,  \* 'शुभ रात्री': 'good night'
    << <<2343, 2344, 2381, 2351, 2357, 2366, 2342>>,
       <<116, 104, 97, 110, 107, 32, 121, 111, 117>> >>,  \* 'धन्यवाद': 'thank you'
    << <<2361, 2379, 2351>>,
       <<121, 101, 115>> >>,  \* 'होय': 'yes'
    << <<2344, 2366, 2361, 2368>>,
       <<110, 111>> >>,  \* 'नाही': 'no'
    << <<2350, 2366, 2347, 32, 2325, 2352, 2366>>,
       <<115, 111, 114, 114, 121>> >>,  \* 'माफ करा': 'sorry'
    << <<2325, 2371, 2346, 2351, 2366>>,
       <<112, 108, 101, 97, 115, 101>> >>,  \* 'कृपया': 'please'
    << <<2340, 2369, 2350, 2330, 2375, 32, 2344, 2366, 2357, 32, 2325, 2366, 2351, 32, 2310, 2361, 2375>>,
       <<119, 104, 97, 116, 32, 105, 115, 32, 121, 111, 117, 114, 32, 110, 97, 109, 101>> >>,  \* 'तुमचे नाव काय आहे': 'what is your name'
    << <<2340, 2369, 2350, 2330, 2375, 32, 2344, 2366, 2357, 32, 2325, 2366, 2351, 32, 2310, 2361, 2375, 63>>,
       <<119, 104, 97, 116, 32, 105, 115, 32, 121, 111, 117, 114, 32, 110, 97, 109, 101, 63>> >>,  \* 'तुमचे नाव काय आहे?': 'what is your name?'
    << <<2350, 2366, 2333, 2375, 32, 2344, 2366, 2357>>,
       <<109, 121, 32, 110, 97, 109, 101, 32, 105, 115>> >>,  \* 'माझे नाव': 'my name is'
    << <<2340, 2369, 2350, 2381, 2361, 2366, 2354, 2366, 32, 2349, 2375, 2335, 2370, 2344, 32, 2310, 2344, 2306, 2342, 32, 2333, 2366, 2354, 2366>>,
       <<110, 105, 99, 101, 32, 116, 111, 32, 109, 101, 101, 116, 32, 121, 111, 117>> >>,  \* 'तुम्हाला भेटून आनंद झाला': 'nice to meet you'
    << <<2344, 2367, 2352, 2379, 2346>>,
       <<103, 111, 111, 100, 98, 121, 101>> >>,  \* 'निरोप': 'goodbye'
    << <<2346, 2369, 2344, 2381, 2361, 2366, 32, 2349, 2375, 2335, 2370>>,
       <<115, 101, 101, 32, 121, 111, 117, 32, 108, 97, 116, 101, 114>> >>,  \* 'पुन्हा भेटू': 'see you later'
    << <<2325, 2369, 2336, 2375>>,
       <<119, 104, 101, 114, 101>> >>,  \* 'कुठे': 'where'
    << <<2325, 2366, 2351>>,
       <<119, 104, 97, 116>> >>,  \* 'काय': 'what'
    << <<2325, 2375, 2357, 2381, 2361, 2366>>,
       <<119, 104, 101, 110>> >>,  \* 'केव्हा': 'when'
    << <<2325, 2360, 2375>>,
       <<104, 111, 119>> >>,  \* 'कसे': 'how'
    << <<2325, 2366>>,
       <<119, 104, 121>> >>,  \* 'का': 'why'
    << <<2346, 2366, 2339, 2368>>,
       <<119, 97, 116, 101, 114>> >>,  \* 'पाणी': 'water'
    << <<2309, 2344, 2381, 2344>>,
       <<102, 111, 111, 100>> >>,  \* 'अन्न': 'food'
    << <<2350, 2342, 2340>>,
       <<104, 101, 108, 112>> >>,  \* 'मदत': 'help'
    << <<2350, 2354, 2366, 32, 2350, 2342, 2340, 32, 2361, 2357, 2368>>,
       <<105, 32, 110, 101, 101, 100, 32, 104, 101, 108, 112>> >>,  \* 'मला मदत हवी': 'i need help'
    << <<2360, 2381, 2344, 2366, 2344, 2327, 2371, 2361, 32, 2325, 2369, 2336, 2375, 32, 2310, 2361, 2375>>,
       <<119, 104, 101, 114, 101, 32, 105, 115, 32, 116, 104, 101, 32, 98, 97, 116, 104, 114, 111, 111, 109>> >>,  \* 'स्नानगृह कुठे आहे': 'where is the bathroom'
    << <<2325, 2367, 2340, 2368>>,
       <<104, 111, 119, 32, 109, 117, 99, 104>> >>,  \* 'किती': 'how much'
    << <<2325, 2367, 2340, 2368, 63>>,
       <<104, 111, 119, 32, 109, 117, 99, 104, 63>> >>,  \* 'किती?': 'how much?'
    << <<2310, 2332>>,
       <<116, 111, 100, 97, 121>> >>,  \* 'आज': 'today'
    << <<2313, 2342, 2381, 2351, 2366>>,
       <<116, 111, 109, 111, 114, 114, 111, 119>> >>,  \* 'उद्या': 'tomorrow'
    << <<2325, 2366, 2354>>,
       <<121, 101, 115, 116, 101, 114, 100, 97, 121>> >>,  \* 'काल': 'yesterday'
    << <<2360, 2306, 2327, 2339, 2325>>,
       <<99, 111, 109, 112, 117, 116, 101, 114>> >>,  \* 'संगणक': 'computer'
    << <<2360, 2377, 2347, 2381, 2335, 2357, 2375, 2309, 2352>>,
       <<115, 111, 102, 116, 119, 97, 114, 101>> >>  \* 'सॉफ्टवेअर': 'software'
  >>

\* translate_with_dictionary: romanized Marathi to English (main.py:1012-1116), in the dict's iteration order;
\* each entry is <<key, value>>, a text being its sequence of code points.
romanized_mr_to_en ==
  <<
    << <<110, 97, 109, 97, 115, 107, 97, 114>>,
       <<104, 101, 108, 108, 111>> >>,  \* 'namaskar': 'hello'
    << <<110, 97, 109, 97, 115, 116, 101>>,
       <<104, 101, 108, 108, 111>> >>,  \* 'namaste': 'hello'
    << <<100, 104, 97, 110, 121, 97, 119, 97, 100>>,
       <<116, 104, 97, 110, 107, 32, 121, 111, 117>> >>,  \* 'dhanyawad': 'thank you'
    << <<100, 104, 97, 110, 121, 97, 98, 97, 100>>,
       <<116, 104, 97, 110, 107, 32, 121, 111, 117>> >>,  \* 'dhanyabad': 'thank you'
    << <<107, 97, 115, 97, 32, 97, 104, 97, 116>>,
       <<104, 111, 119, 32, 97, 114, 101, 32, 121, 111, 117>> >>,  \* 'kasa ahat': 'how are you'
    << <<107, 97, 115, 97, 32, 97, 104, 101, 115>>,
       <<104, 111, 119, 32, 97, 114, 101, 32, 121, 111, 117>> >>,  \* 'kasa ahes': 'how are you'
    << <<107, 97, 115, 97, 32, 107, 97, 121>>,
       <<104, 111, 119, 32, 97, 114, 101, 32, 121, 111, 117>> >>,  \* 'kasa kay': 'how are you'
    << <<116, 117, 109, 104, 105, 32, 107, 97, 115, 97, 32, 97, 104, 97, 116>>,
       <<104, 111, 119, 32, 97, 114, 101, 32, 121, 111, 117>> >>,  \* 'tumhi kasa ahat': 'how are you'
    << <<116, 117, 109, 104, 105, 32, 107, 97, 115, 101, 32, 97, 104, 97, 116>>,
       <<104, 111, 119, 32, 97, 114, 101, 32, 121, 111, 117>> >>,  \* 'tumhi kase ahat': 'how are you'
    << <<116, 117, 109, 99, 104, 101, 32, 110, 97, 118, 32, 107, 97, 121, 32, 97, 104, 101>>,
       <<119, 104, 97, 116, 32, 105, 115, 32, 121, 111, 117, 114, 32, 110, 97, 109, 101>> >>,  \* 'tumche nav kay ahe': 'what is your name'
    << <<109, 97, 106, 104, 101, 32, 110, 97, 118>>,
       <<109, 121, 32, 110, 97, 109, 101, 32, 105, 115>> >>,  \* 'majhe nav': 'my name is'
    << <<109, 97, 122, 97, 32, 110, 97, 118>>,
       <<109, 121, 32, 110, 97, 109, 101, 32, 105, 115>> >>,  \* 'maza nav': 'my name is'
    << <<109, 105, 32, 107, 97, 97, 109, 32, 107, 97, 114, 97, 116, 32, 97, 104, 101>>,
       <<73, 32, 97, 109, 32, 119, 111, 114, 107, 105, 110, 103>> >>,  \* 'mi kaam karat ahe': 'I am working'
    << <<109, 105, 32, 115, 99, 104, 111, 111, 108, 32, 108, 97, 32, 106, 97, 116, 111, 121>>,
       <<73, 32, 97, 109, 32, 103, 111, 105, 110, 103, 32, 116, 111, 32, 115, 99, 104, 111, 111, 108>> >>,  \* 'mi school la jatoy': 'I am going to school'
    << <<109, 105, 32, 103, 104, 97, 114, 105, 32, 106, 97, 116, 111, 121>>,
       <<73, 32, 97, 109, 32, 103, 111, 105, 110, 103, 32, 104, 111, 109, 101>> >>,  \* 'mi ghari jatoy': 'I am going home'
    << <<109, 105, 32, 107, 104, 97, 110, 97, 32, 107, 104, 97, 116, 116, 111, 121>>,
       <<73, 32, 97, 109, 32, 101, 97, 116, 105, 110, 103, 32, 102, 111, 111, 100>> >>,  \* 'mi khana khattoy': 'I am eating food'
    << <<109, 97, 108, 97, 32, 112, 114, 111, 103, 114, 97, 109, 109, 105, 110, 103, 32, 115, 104, 105, 107, 97, 121, 99, 104, 101, 32, 97, 104, 101>>,
       <<73, 32, 119, 97, 110, 116, 32, 116, 111, 32, 108, 101, 97, 114, 110, 32, 112, 114, 111, 103, 114, 97, 109, 109, 105, 110, 103>> >>,  \* 'mala programming shikayche ahe': 'I want to learn programming'
    << <<109, 97, 108, 97, 32, 112, 114, 111, 103, 114, 97, 109, 109, 105, 110, 103, 32, 115, 104, 105, 107, 97, 121, 99, 104, 101>>,
       <<73, 32, 119, 97, 110, 116, 32, 116, 111, 32, 108, 101, 97, 114, 110, 32, 112, 114, 111, 103, 114, 97, 109, 109, 105, 110, 103>> >>,  \* 'mala programming shikayche': 'I want to learn programming'
    << <<109, 105, 32, 112, 114, 111, 103, 114, 97, 109, 109, 105, 110, 103, 32, 115, 104, 105, 107, 97, 116, 32, 97, 104, 101>>,
       <<73, 32, 97, 109, 32, 108, 101, 97, 114, 110, 105, 110, 103, 32, 112, 114, 111, 103, 114, 97, 109, 109, 105, 110, 103>> >>,  \* 'mi programming shikat ahe': 'I am learning programming'
    << <<112, 114, 111, 103, 114, 97, 109, 109, 105, 110, 103, 32, 115, 104, 105, 107, 97, 116>>,
       <<108, 101, 97, 114, 110, 105, 110, 103, 32, 112, 114, 111, 103, 114, 97, 109, 109, 105, 110, 103>> >>,  \* 'programming shikat': 'learning programming'
    << <<112, 97, 110, 105>>,
       <<119, 97, 116, 101, 114>> >>,  \* 'pani': 'water'
    << <<97, 110, 110, 97>>,
       <<102, 111, 111, 100>> >>,  \* 'anna': 'food'
    << <<107, 104, 97, 110, 97>>,
       <<102, 111, 111, 100>> >>,  \* 'khana': 'food'
    << <<106, 101, 118, 97, 110>>,
       <<109, 101, 97, 108>> >>,  \* 'jevan': 'meal'
    << <<109, 97, 100, 97, 100>>,
       <<104, 101, 108, 112>> >>,  \* 'madad': 'help'
    << <<109, 97, 100, 100, 97, 116>>,
       <<104, 101, 108, 112>> >>,  \* 'maddat': 'help'
    << <<107, 117, 116, 104, 101>>,
       <<119, 104, 101, 114, 101>> >>,  \* 'kuthe': 'where'
    << <<107, 97, 121>>,
       <<119, 104, 97, 116>> >>,  \* 'kay': 'what'
    << <<107, 97, 115, 97>>,
       <<104, 111, 119>> >>,  \* 'kasa': 'how'
    << <<107, 97, 115, 101>>,
       <<104, 111, 119>> >>,  \* 'kase': 'how'
    << <<107, 105, 116, 105>>,
       <<104, 111, 119, 32, 109, 117, 99, 104>> >>,  \* 'kiti': 'how much'
    << <<107, 101, 118, 104, 97>>,
       <<119, 104, 101, 110>> >>,  \* 'kevha': 'when'
    << <<107, 111, 110>>,
       <<119, 104, 111>> >>,  \* 'kon': 'who'
    << <<104, 111, 121, 101>>,
       <<121, 101, 115>> >>,  \* 'hoye': 'yes'
    << <<104, 111, 121>>,
       <<121, 101, 115>> >>,  \* 'hoy': 'yes'
    << <<110, 97, 104, 105>>,
       <<110, 111>> >>,  \* 'nahi': 'no'
    << <<109, 97, 97, 102, 32, 107, 97, 114, 97>>,
       <<115, 111, 114, 114, 121>> >>,  \* 'maaf kara': 'sorry'
    << <<107, 114, 117, 112, 97, 32, 107, 97, 114, 97>>,
       <<112, 108, 101, 97, 115, 101>> >>,  \* 'krupa kara': 'please'
    << <<97, 97, 106>>,
       <<116, 111, 100, 97, 121>> >>,  \* 'aaj': 'today'
    << <<117, 100, 121, 97>>,
       <<116, 111, 109, 111, 114, 114, 111, 119>> >>,  \* 'udya': 'tomorrow'
    << <<107, 97, 108>>,
       <<121, 101, 115, 116, 101, 114, 100, 97, 121>> >>,  \* 'kal': 'yesterday'
    << <<114, 97, 116, 114, 105>>,
       <<110, 105, 103, 104, 116>> >>,  \* 'ratri': 'night'
    << <<115, 97, 107, 97, 108>>,
       <<109, 111, 114, 110, 105, 110, 103>> >>,  \* 'sakal': 'morning'
    << <<115, 97, 110, 100, 104, 121, 97>>,
       <<101, 118, 101, 110, 105, 110, 103>> >>,  \* 'sandhya': 'evening'
    << <<100, 117, 112, 97, 114, 105>>,
       <<97, 102, 116, 101, 114, 110, 111, 111, 110>> >>,  \* 'dupari': 'afternoon'
    << <<103, 104, 97, 114>>,
       <<104, 111, 109, 101>> >>,  \* 'ghar': 'home'
    << <<103, 104, 97, 114, 97>>,
       <<104, 111, 109, 101>> >>,  \* 'ghara': 'home'
    << <<115, 99, 104, 111, 111, 108>>,
       <<115, 99, 104, 111, 111, 108>> >>,  \* 'school': 'school'
    << <<107, 97, 97, 109>>,
       <<119, 111, 114, 107>> >>,  \* 'kaam': 'work'
    << <<110, 111, 107, 114, 105>>,
       <<106, 111, 98>> >>,  \* 'nokri': 'job'
    << <<112, 97, 105, 115, 97>>,
       <<109, 111, 110, 101, 121>> >>,  \* 'paisa': 'money'
    << <<118, 101, 108>>,
       <<116, 105, 109, 101>> >>,  \* 'vel': 'time'
    << <<109, 105, 116, 114, 97>>,
       <<102, 114, 105, 101, 110, 100>> >>,  \* 'mitra': 'friend'
    << <<102, 97, 109, 105, 108, 121>>,
       <<107, 117, 116, 117, 109, 98>> >>,  \* 'family': 'kutumb'
    << <<97, 97, 105>>,
       <<109, 111, 116, 104, 101, 114>> >>,  \* 'aai': 'mother'
    << <<98, 97, 98, 97>>,
       <<102, 97, 116, 104, 101, 114>> >>,  \* 'baba': 'father'
    << <<98, 104, 97, 117>>,
       <<98, 114, 111, 116, 104, 101, 114>> >>,  \* 'bhau': 'brother'
    << <<98, 97, 104, 105, 110>>,
       <<115, 105, 115, 116, 101, 114>> >>,  \* 'bahin': 'sister'
    << <<116, 117, 109, 104, 105>>,
       <<121, 111, 117>> >>,  \* 'tumhi': 'you'
    << <<116, 117, 109, 105>>,
       <<121, 111, 117>> >>,  \* 'tumi': 'you'
    << <<109, 105>>,
       <<73>> >>,  \* 'mi': 'I'
    << <<97, 109, 104, 105>>,
       <<119, 101>> >>,  \* 'amhi': 'we'
    << <<116, 101>>,
       <<116, 104, 101, 121>> >>,  \* 'te': 'they'
    << <<116, 121, 97, 110, 99, 104, 101>>,
       <<116, 104, 101, 105, 114>> >>,  \* 'tyanche': 'their'
    << <<116, 121, 97, 99, 104, 105>>,
       <<104, 105, 115, 47, 104, 101, 114>> >>,  \* 'tyachi': 'his/her'
    << <<109, 97, 108, 97>>,
       <<116, 111, 32, 109, 101>> >>,  \* 'mala': 'to me'
    << <<116, 117, 108, 97>>,
       <<116, 111, 32, 121, 111, 117>> >>,  \* 'tula': 'to you'
    << <<97, 97, 104, 101>>,
       <<105, 115>> >>,  \* 'aahe': 'is'
    << <<97, 104, 101>>,
       <<105, 115>> >>,  \* 'ahe': 'is'
    << <<97, 104, 97, 116>>,
       <<97, 114, 101>> >>,  \* 'ahat': 'are'
    << <<97, 104, 101, 115>>,
       <<97, 114, 101>> >>,  \* 'ahes': 'are'
    << <<99, 104, 121, 97>>,
       <<111, 102>> >>,  \* 'chya': 'of'
    << <<109, 97, 100, 104, 101>>,
       <<105, 110>> >>,  \* 'madhe': 'in'
    << <<118, 97, 114>>,
       <<111, 110>> >>,  \* 'var': 'on'
    << <<112, 97, 115, 117, 110>>,
       <<102, 114, 111, 109>> >>,  \* 'pasun': 'from'
    << <<115, 97, 97, 116, 104, 105>>,
       <<102, 111, 114>> >>,  \* 'saathi': 'for'
    << <<98, 97, 114, 111, 98, 97, 114>>,
       <<119, 105, 116, 104>> >>,  \* 'barobar': 'with'
    << <<115, 104, 105, 118, 97, 121>>,
       <<119, 105, 116, 104, 111, 117, 116>> >>,  \* 'shivay': 'without'
    << <<112, 117, 100, 104, 101>>,
       <<97, 104, 101, 97, 100>> >>,  \* 'pudhe': 'ahead'
    << <<109, 97, 103, 104, 101>>,
       <<98, 101, 104, 105, 110, 100>> >>,  \* 'maghe': 'behind'
    << <<118, 97, 114, 116, 105>>,
       <<97, 98, 111, 118, 101>> >>,  \* 'varti': 'above'
    << <<107, 104, 97, 108, 105>>,
       <<98, 101, 108, 111, 119>> >>,  \* 'khali': 'below'
    << <<106, 97, 116, 111, 121>>,
       <<103, 111, 105, 110, 103>> >>,  \* 'jatoy': 'going'
    << <<121, 101, 116, 111, 121>>,
       <<99, 111, 109, 105, 110, 103>> >>,  \* 'yetoy': 'coming'
    << <<107, 97, 114, 97, 116>>,
       <<100, 111, 105, 110, 103>> >>,  \* 'karat': 'doing'
    << <<107, 104, 97, 116, 116, 111, 121>>,
       <<101, 97, 116, 105, 110, 103>> >>,  \* 'khattoy': 'eating'
    << <<112, 105, 116, 111, 121>>,
       <<100, 114, 105, 110, 107, 105, 110, 103>> >>,  \* 'pitoy': 'drinking'
    << <<98, 111, 108, 116, 111, 121>>,
       <<115, 112, 101, 97, 107, 105, 110, 103>> >>,  \* 'boltoy': 'speaking'
    << <<97, 105, 107, 116, 116, 111, 121>>,
       <<108, 105, 115, 116, 101, 110, 105, 110, 103>> >>,  \* 'aikttoy': 'listening'
    << <<98, 97, 103, 104, 116, 111, 121>>,
       <<119, 97, 116, 99, 104, 105, 110, 103>> >>,  \* 'baghtoy': 'watching'
    << <<118, 97, 99, 104, 116, 111, 121>>,
       <<114, 101, 97, 100, 105, 110, 103>> >>,  \* 'vachtoy': 'reading'
    << <<108, 105, 104, 116, 111, 121>>,
       <<119, 114, 105, 116, 105, 110, 103>> >>,  \* 'lihtoy': 'writing'
    << <<122, 111, 112, 116, 111, 121>>,
       <<115, 108, 101, 101, 112, 105, 110, 103>> >>,  \* 'zoptoy': 'sleeping'
    << <<117, 116, 104, 116, 116, 111, 121>>,
       <<119, 97, 107, 105, 110, 103, 32, 117, 112>> >>,  \* 'uthttoy': 'waking up'
    << <<99, 104, 97, 108, 116, 111, 121>>,
       <<119, 97, 108, 107, 105, 110, 103>> >>,  \* 'chaltoy': 'walking'
    << <<100, 104, 97, 118, 116, 116, 111, 121>>,
       <<114, 117, 110, 110, 105, 110, 103>> >>,  \* 'dhavttoy': 'running'
    << <<104, 97, 115, 116, 116, 111, 121>>,
       <<108, 97, 117, 103, 104, 105, 110, 103>> >>,  \* 'hasttoy': 'laughing'
    << <<114, 117, 100, 116, 116, 111, 121>>,
       <<99, 114, 121, 105, 110, 103>> >>,  \* 'rudttoy': 'crying'
    << <<115, 104, 105, 107, 97, 116>>,
       <<108, 101, 97, 114, 110, 105, 110, 103>> >>,  \* 'shikat': 'learning'
    << <<115, 104, 105, 107, 97, 121, 99, 104, 101>>,
       <<119, 97, 110, 116, 32, 116, 111, 32, 108, 101, 97, 114, 110>> >>,  \* 'shikayche': 'want to learn'
    << <<99, 111, 109, 112, 117, 116, 101, 114>>,
       <<99, 111, 109, 112, 117, 116, 101, 114>> >>,  \* 'computer': 'computer'
    << <<115, 111, 102, 116, 119, 97, 114, 101>>,
       <<115, 111, 102, 116, 119, 97, 114, 101>> >>,  \* 'software': 'software'
    << <<112, 114, 111, 103, 114, 97, 109, 109, 105, 110, 103>>,
       <<112, 114, 111, 103, 114, 97, 109, 109, 105, 110, 103>> >>  \* 'programming': 'programming'
  >>

(***************************************************************************)
(* The texts the clients of the model send, and the texts its backends    *)
(* answer with.                                                           *)
(***************************************************************************)
T_hello == <<104, 101, 108, 108, 111>>  \* 'hello': a key of en_to_mr
T_Hello == <<32, 72, 101, 108, 108, 111>>  \* ' Hello': the same phrase with a capital and a leading space
T_good_morning ==
  <<103, 111, 111, 100, 32, 109, 111, 114, 110, 105, 110, 103>>  \* 'good morning': a key of en_to_mr of two words
T_zzxx == <<122, 122, 120, 120, 49, 50, 51>>  \* 'zzxx123': in no table
T_namaskar_dev == <<2344, 2350, 2360, 2381, 2325, 2366, 2352>>  \* 'नमस्कार': a key of mr_to_en
T_mi_kasa == <<109, 105, 32, 107, 97, 115, 97>>  \* 'mi kasa': romanized Marathi in no table: two words
T_theek == <<2350, 2368, 32, 2336, 2368, 2325, 32, 2310, 2361, 2375>>  \* 'मी ठीक आहे': Devanagari in no table
T_garbled == <<63, 63, 63>>  \* '???': question marks only
T_blank == <<32, 32>>  \* '  ': whitespace only
T_empty == <<>>  \* '': the empty text
T_namaskar == <<110, 97, 109, 97, 115, 107, 97, 114>>  \* 'namaskar': the text of the self-test of GET /health

DEV_RESULT == <<2344, 2350, 2360, 2381, 2340, 2375>>  \* 'नमस्ते': a translation in Devanagari
ASCII_RESULT == <<103, 114, 101, 101, 116, 105, 110, 103, 115>>  \* 'greetings': a translation in Latin script
ERROR_RESULT == <<69, 114, 114, 111, 114, 32, 53, 48, 48>>  \* 'Error 500': an error text in place of a translation


\* The texts a client may send to POST /translate.
ClientTexts ==
  {T_hello, T_Hello, T_good_morning, T_zzxx, T_namaskar_dev, T_mi_kasa,
   T_theek, T_blank, T_empty}


\* The texts on which the functions of the program are computed once: the
\* client texts as translate sees them (trimmed), and the texts of the
\* self-test of GET /health.
KnownTexts ==
  {Strip(t) : t \in ClientTexts} \cup {T_hello, T_namaskar}

\* The value computed once for text t in a set of <<text, value>> pairs.
TableAt(table, t) == (CHOOSE p \in table : p[1] = t)[2]

(***************************************************************************)
(* Language tags and the fixed texts of the program.                       *)
(***************************************************************************)
EN == <<101, 110>>                                  \* 'en'
MR == <<109, 114>>                                  \* 'mr'
AUTO == <<97, 117, 116, 111>>                       \* "auto"
ENGLISH == <<69, 110, 103, 108, 105, 115, 104>>     \* "English"
MARATHI == <<77, 97, 114, 97, 116, 104, 105>>       \* "Marathi"
QUESTION == <<63>>                                  \* '?'
UNDERSCORE == <<95>>                                \* '_'

\* '?' in text and len(text.replace('?', '').strip()) == 0
IsGarbled(text) ==
  Contains(QUESTION, text) /\ Len(Strip(Replace(text, QUESTION, <<>>))) = 0

\* How many entries of a list (counted with their repetitions) occur in
\* text as substrings: the `for word in ...: if word in text_lower` loops.
CountContained(list, text) ==
  Cardinality({i \in 1..Len(list) : Contains(list[i], text)})

\* BilingualTranslationService.detect_language
detect_language(text) ==
  LET text_lower == Strip(Lower(text))
      words == Split(text_lower)
      marathi_word_count == CountContained(marathi_words, text_lower)
  IN  IF IsGarbled(text) THEN MR
      ELSE IF HasDevanagari(text) THEN MR
      ELSE IF \E i \in 1..Len(marathi_phrases) :
                 Contains(marathi_phrases[i], text_lower) THEN MR
      ELSE IF Len(words) = 1 /\ InList(marathi_words, text_lower) THEN MR
      ELSE IF Len(words) >= 2
           THEN \* marathi_ratio >= 0.30 and marathi_word_count >= 2
                IF /\ marathi_word_count > 0
                   /\ 10 * marathi_word_count >= 3 * Len(words)
                   /\ marathi_word_count >= 2
                THEN MR ELSE EN
           ELSE IF marathi_word_count >= 1 THEN MR ELSE EN

\* detect_language on the texts of the clients is computed once (the
\* operator is applied as it is to any other text).
detect_language_table == {<<t, detect_language(t)>> : t \in KnownTexts}
detect_language_of(text) ==
  IF text \in KnownTexts THEN TableAt(detect_language_table, text)
  ELSE detect_language(text)

\* What langdetect.detect may do on a call: the module is absent
\* (LANGDETECT_AVAILABLE is False), it raises, or it names a language.
LangdetectOutcomes == {"absent", "raise", "en", "hi", "mr", "other"}

\* BilingualTranslationService.advanced_language_detection, given what
\* langdetect does on this call.
advanced_language_detection(text, ld) ==
  IF HasDevanagari(text) THEN MR
  ELSE IF ld \in {"hi", "mr"}
       THEN IF \E i \in 1..Len(marathi_indicators) :
                   Contains(marathi_indicators[i], Lower(text)) THEN MR
            ELSE IF ld = "mr" THEN MR ELSE EN
  ELSE IF ld = "en" THEN EN
  ELSE detect_language_of(text)

(***************************************************************************)
(* The phrase dictionary.                                                  *)
(***************************************************************************)

\* "Unable to translate garbled text. Please ensure proper UTF-8 encoding
\* for Devanagari script."
GarbledMessage ==
  <<85, 110, 97, 98, 108, 101, 32, 116, 111, 32, 116, 114, 97, 110, 115, 108,
    97, 116, 101, 32, 103, 97, 114, 98, 108, 101, 100, 32, 116, 101, 120, 116,
    46, 32, 80, 108, 101, 97, 115, 101, 32, 101, 110, 115, 117, 114, 101, 32,
    112, 114, 111, 112, 101, 114, 32, 85, 84, 70, 45, 56, 32, 101, 110, 99,
    111, 100, 105, 110, 103, 32, 102, 111, 114, 32, 68, 101, 118, 97, 110, 97,
    103, 97, 114, 105, 32, 115, 99, 114, 105, 112, 116, 46>>

\* The longest key of a table.
MaxKeyLen(table) == MaxOf({Len(table[i][1]) : i \in 1..Len(table)} \cup {0})

\* sorted(table.items(), key=lambda x: len(x[0]), reverse=True): by key
\* length, longest first; the sort is stable, so keys of one length keep
\* the table's order.
RECURSIVE SortedFrom(_, _)
SortedFrom(table, n) ==
  IF n = 0 THEN <<>>
  ELSE SelectSeq(table, LAMBDA e : Len(e[1]) = n) \o SortedFrom(table, n - 1)
SortedByKeyLen(table) == SortedFrom(table, MaxKeyLen(table))

\* sorted_romanized of translate_with_dictionary (line 1190)
sorted_romanized == SortedByKeyLen(romanized_mr_to_en)

\* The value of the first entry, in the order given, that satisfies Hit;
\* None when no entry does: `for k, v in ...: if ...: return v`.
FirstValue(table, Hit(_)) ==
  LET hits == {i \in 1..Len(table) : Hit(table[i][1])}
  IN  IF hits = {} THEN None ELSE table[MinOf(hits)][2]

\* A word-by-word loop that counts a word it keeps as a word it found.
WordTranslation_counted(word) ==
  IF HasKey(romanized_mr_to_en, word)
  THEN <<Lookup(romanized_mr_to_en, word), 1>>
  ELSE <<word, 1>>

\* The word-by-word loop of translate_with_dictionary (lines 1201-1215):
\* for one word, <<what is appended to translated_words, 1 if a
\* translation was found and 0 if the word was kept>>.
WordTranslation(word) ==
  IF HasKey(romanized_mr_to_en, word)
  THEN <<Lookup(romanized_mr_to_en, word), 1>>
  ELSE LET partial == FirstValue(romanized_mr_to_en,
                        LAMBDA rom_word :
                          /\ Len(rom_word) >= 4
                          /\ (Contains(word, rom_word) \/ Contains(rom_word, word)))
       IN  IF partial # None THEN <<partial, 1>> ELSE <<word, 0>>

\* The sum of the second components of a sequence of pairs.
RECURSIVE SumFound(_)
SumFound(pairs) ==
  IF pairs = <<>> THEN 0 ELSE pairs[1][2] + SumFound(Tail(pairs))

\* BilingualTranslationService.translate_with_dictionary
translate_with_dictionary(text, source_lang, target_lang) ==
  LET text_lower == Strip(Lower(text))
      words == Split(text_lower)
      pairs == [i \in 1..Len(words) |-> WordTranslation(words[i])]
      found_translations == SumFound(pairs)
      devanagari_partial ==
        FirstValue(mr_to_en,
          LAMBDA mar_phrase :
            Contains(mar_phrase, text) /\ Len(Split(mar_phrase)) >= 2)
      romanized_partial ==
        FirstValue(sorted_romanized,
          LAMBDA rom_phrase :
            Len(Split(rom_phrase)) >= 2 /\ Contains(rom_phrase, text_lower))
  IN  IF source_lang = EN /\ target_lang = MR
      THEN IF HasKey(en_to_mr, text_lower)
           THEN Lookup(en_to_mr, text_lower) ELSE None
      ELSE IF source_lang = MR /\ target_lang = EN
      THEN IF IsGarbled(text) THEN GarbledMessage
           ELSE IF HasKey(mr_to_en, text) THEN Lookup(mr_to_en, text)
           ELSE IF HasKey(romanized_mr_to_en, text_lower)
                THEN Lookup(romanized_mr_to_en, text_lower)
           ELSE IF Len(Split(text)) >= 2 /\ devanagari_partial # None
                THEN devanagari_partial
           ELSE IF Len(words) >= 2 /\ romanized_partial # None
                THEN romanized_partial
           ELSE IF /\ Len(words) >= 3
                   /\ found_translations > 0
                   \* found_translations >= len(words) * 0.7
                   /\ 10 * found_translations >= 7 * Len(words)
                THEN JoinSpace([i \in 1..Len(words) |-> pairs[i][1]])
           ELSE None
      ELSE None

\* translate_with_dictionary on the texts of the clients is computed once
\* for each direction (the operator is applied as it is to any other
\* argument).
dictionary_en_mr ==
  {<<t, translate_with_dictionary(t, EN, MR)>> : t \in KnownTexts}
dictionary_mr_en ==
  {<<t, translate_with_dictionary(t, MR, EN)>> : t \in KnownTexts}
translate_with_dictionary_of(text, source_lang, target_lang) ==
  IF text \in KnownTexts /\ source_lang = EN /\ target_lang = MR
  THEN TableAt(dictionary_en_mr, text)
  ELSE IF text \in KnownTexts /\ source_lang = MR /\ target_lang = EN
  THEN TableAt(dictionary_mr_en, text)
  ELSE translate_with_dictionary(text, source_lang, target_lang)

(***************************************************************************)
(* Transliteration: the variants of a text tried on the providers.         *)
(***************************************************************************)

\* An exception raised by a library or a backend call.
Raise == <<-2>>
\* A payload value that is not a str (a JSON number, list or object).
NonString == <<-3>>

\* Python's truth of a str-or-None value: `if result`.
Truthy(v) == v # None /\ v # <<>>

\* The loop `for roman, devanagari in sorted_map: converted_text =
\* converted_text.replace(roman, devanagari)`, from entry i on.
RECURSIVE ReplaceAllFrom(_, _, _)
ReplaceAllFrom(text, sorted_map, i) ==
  IF i > Len(sorted_map) THEN text
  ELSE ReplaceAllFrom(Replace(text, sorted_map[i][1], sorted_map[i][2]),
                      sorted_map, i + 1)

\* sorted_map of romanized_to_devanagari (line 302)
sorted_map == SortedByKeyLen(romanized_to_devanagari_map)

\* The manual mapping of romanized_to_devanagari (lines 301-307); on the
\* texts of the clients it is computed once.
manual_mapping(text) == ReplaceAllFrom(Lower(text), sorted_map, 1)
manual_mapping_table == {<<t, manual_mapping(t)>> : t \in KnownTexts}
manual_mapping_of(text) ==
  IF text \in KnownTexts THEN TableAt(manual_mapping_table, text)
  ELSE manual_mapping(text)

\* BilingualTranslationService.romanized_to_devanagari.  itrans is what
\* transliterate(text, ITRANS, DEVANAGARI) does: None when the library is
\* absent (INDIC_AVAILABLE is False), Raise, or the converted text.
romanized_to_devanagari(text, itrans) ==
  IF itrans # None /\ itrans # Raise /\ Truthy(itrans) /\ itrans # text
  THEN itrans
  ELSE manual_mapping_of(text)

\* The four schemes of comprehensive_transliteration, in order: ITRANS, HK,
\* VELTHUIS, BARAHA.
NumSchemes == 4

\* The loop over the schemes, from scheme i on: converted[i] is what
\* transliterate does for scheme i (Raise, or a text).
RECURSIVE SchemeVariants(_, _, _, _)
SchemeVariants(text, converted, variants, i) ==
  IF i > NumSchemes THEN variants
  ELSE IF /\ converted[i] # Raise
          /\ Truthy(converted[i])
          /\ converted[i] # text
          /\ ~InList(variants, converted[i])
       THEN SchemeVariants(text, converted, Append(variants, converted[i]), i + 1)
       ELSE SchemeVariants(text, converted, variants, i + 1)

\* BilingualTranslationService.comprehensive_transliteration.  indic is
\* INDIC_AVAILABLE; converted[i] is what transliterate does for scheme i.
comprehensive_transliteration(text, indic, converted) ==
  LET after_indic == IF indic THEN SchemeVariants(text, converted, <<text>>, 1)
                     ELSE <<text>>
      manual_converted ==
        romanized_to_devanagari(text, IF indic THEN converted[1] ELSE None)
  IN  IF manual_converted # text /\ ~InList(after_indic, manual_converted)
      THEN Append(after_indic, manual_converted)
      ELSE after_indic

(***************************************************************************)
(* The providers.  A backend call either raises (network failure, timeout, *)
(* a payload that cannot be parsed or indexed), answers without a          *)
(* translation (None: a status other than 200, a payload without the       *)
(* field), or answers with a payload value.                                *)
(***************************************************************************)

\* Whether a backend call failed (it raised: no network, a timeout, a
\* payload that cannot be parsed; it answered without a translation: a
\* status other than 200, a payload without the field; or its payload was
\* not a text) or answered with a text.
OutcomeClass(out) ==
  IF out \in {Raise, None, NonString} THEN "failed" ELSE "answered"

\* translation_methods of translate_with_multiple_variants, in list order.
translation_methods ==
  <<"googletrans", "deep_translator", "google_free", "mymemory",
    "microsoft", "bing", "lingva", "libre", "apertium">>

\* translate_with_googletrans and translate_with_deep_translator: the
\* translation is returned only if it differs from the text sent (both
\* trimmed); a missing library (GOOGLETRANS_AVAILABLE or
\* DEEP_TRANSLATOR_AVAILABLE False) is the backend answering None.
translate_with_googletrans(text, out) ==
  IF out \in {Raise, None, NonString} THEN None
  ELSE IF Truthy(out) /\ Strip(out) # Strip(text) THEN out ELSE None

\* translate_with_google_free: the pieces of the payload joined into a str
\* (joining pieces that are not str raises).
translate_with_google_free(text, out) ==
  IF out \in {Raise, NonString} THEN None ELSE out

\* A method whose exception is not caught and comes out in place of a
\* result.
translate_with_passthrough_uncaught(text, out) == out

\* translate_with_microsoft, translate_with_bing, translate_with_lingva,
\* translate_with_libre, translate_with_apertium: whatever translation the
\* payload holds is returned as it is.
translate_with_passthrough(text, out) ==
  IF out = Raise THEN None ELSE out

\* 'PLEASE SELECT TWO DISTINCT LANGUAGES'
SELECT_MESSAGE ==
  <<80, 76, 69, 65, 83, 69, 32, 83, 69, 76, 69, 67, 84, 32, 84, 87,
    79, 32, 68, 73, 83, 84, 73, 78, 67, 84, 32, 76, 65, 78, 71, 85,
    65, 71, 69, 83>>

\* The acceptance test of one MyMemory attempt (lines 772-776).
mymemory_attempt_ok(attempt_text, out) ==
  /\ out \notin {Raise, None, NonString}
  /\ Truthy(out)
  /\ Strip(Lower(out)) # Strip(Lower(attempt_text))
  /\ Len(Strip(out)) > 0
  /\ ~Contains(SELECT_MESSAGE, Upper(out))

\* The attempts of translate_with_mymemory when a language is Marathi
\* (the list attempts of line 750), one request otherwise.
MyMemoryAttempts == 3
mymemory_attempts(source_lang, target_lang) ==
  IF source_lang = MR \/ target_lang = MR THEN MyMemoryAttempts ELSE 1

\* api_text of translate_with_mymemory (lines 733-740); itrans is what
\* transliterate does for romanized_to_devanagari.
mymemory_api_text(text, source_lang, itrans) ==
  IF source_lang = MR /\ ~HasDevanagari(text)
  THEN romanized_to_devanagari(text, itrans) ELSE text

\* The text sent on attempt k (lines 750-754).
mymemory_attempt_text(k, text, api_text) ==
  IF k = 2 THEN text ELSE api_text

\* The request of the branch without Marathi (lines 786-805):
\* <<the value returned, the increment of api_call_count>>.  An exception
\* there reaches the outer except clause, which returns None and leaves
\* the counter alone.
mymemory_single(api_text, out) ==
  IF out \in {Raise, NonString} THEN <<None, 0>>
  ELSE IF /\ Truthy(out)
          /\ Strip(Lower(out)) # Strip(Lower(api_text))
       THEN <<out, 0>>
  ELSE <<None, 1>>

\* The phrases of line 575.
error_phrases ==
  <<<<101, 114, 114, 111, 114>>,  \* 'error'
    <<102, 97, 105, 108, 101, 100>>,  \* 'failed'
    <<112, 108, 101, 97, 115, 101, 32, 115, 101, 108, 101, 99, 116>>,  \* 'please select'
    <<100, 105, 115, 116, 105, 110, 99, 116, 32, 108, 97, 110, 103, 117, 97, 103, 101, 115>>>>  \* 'distinct languages'

\* The acceptance test of translate_with_multiple_variants (lines 571-575).
\* A value that is not a str raises in result.strip(), which the loop's
\* except clause turns into a rejection.
accepted(result, variant) ==
  /\ result # NonString
  /\ Truthy(result)
  /\ Strip(result) # Strip(variant)
  /\ Len(Strip(result)) > 0
  /\ ~\E i \in 1..Len(error_phrases) : Contains(error_phrases[i], Lower(result))

\* "Translation not available for '" and the rest of the fallback message
\* of translate (line 1301).
FallbackPrefix ==
  <<84, 114, 97, 110, 115, 108, 97, 116, 105, 111, 110, 32, 110, 111, 116, 32,
    97, 118, 97, 105, 108, 97, 98, 108, 101, 32, 102, 111, 114, 32, 39>>
FallbackSuffix ==
  <<39, 46, 32, 84, 114, 121, 32, 99, 111, 109, 109, 111, 110, 32, 112, 104,
    114, 97, 115, 101, 115, 32, 108, 105, 107, 101, 32, 39, 104, 101, 108, 108,
    111, 39, 44, 32, 39, 116, 104, 97, 110, 107, 32, 121, 111, 117, 39, 44,
    32, 39, 110, 97, 109, 97, 115, 107, 97, 114, 39, 44, 32, 111, 114, 32,
    39, 100, 104, 97, 110, 121, 97, 119, 97, 100, 39, 46>>
fallback_msg(text) == FallbackPrefix \o text \o FallbackSuffix

\* The values a client may send as source_language and as target_language.
LanguagePairs ==
  {<<AUTO, AUTO>>, <<EN, MR>>, <<MR, EN>>, <<EN, EN>>, <<AUTO, EN>>,
   <<ENGLISH, MARATHI>>}

\* The texts the clients of one run send: one text, or a text in two
\* spellings.
ClientTextSets == {{t} : t \in ClientTexts} \cup {{T_hello, T_Hello}}

\* What a backend may do when sent text: raise, answer without a
\* translation, or answer with a payload value: a translation in either
\* script, the text sent back (as it is, or with a space before it), the
\* empty text, an error text, or a value that is not a str.
BackendOutcomes(text) ==
  {Raise, None, NonString, DEV_RESULT, ASCII_RESULT, text, <<32>> \o text,
   <<>>, ERROR_RESULT}

\* What the MyMemory backend may do on one request, sent text for the
\* variant of the loop: raise, answer without a translation, or answer with
\* a translatedText: a translation in either script, the text sent back,
\* the variant, the message about the languages, an error text, the empty
\* text, or a value that is not a str.
MyMemoryOutcomes(text, variant) ==
  {Raise, None, NonString, DEV_RESULT, ASCII_RESULT, text, variant,
   SELECT_MESSAGE, ERROR_RESULT, <<>>}

\* What transliterate may do when called on text (the library present).
IndicOutcomes(text) == {Raise, text, DEV_RESULT}

\* The texts the four schemes of comprehensive_transliteration may convert
\* one text to: CONVERTED[k] is the k-th different text the loop meets.
CONVERTED ==
  <<DEV_RESULT,
    <<2350, 2367, 32, 2325, 2360>>,  \* 'मि कस'
    <<2350, 2367, 2325, 2360>>,  \* 'मिकस'
    <<2350, 2368, 32, 2325, 2360>>>>  \* 'मी कस'

\* The bound on the different texts the four schemes convert one text to.
MaxConversions == 1

\* What transliterate may do for the schemes, one after the other, when
\* called on text: each call raises, gives the text back, gives a text an
\* earlier scheme gave, or gives the next different text.
SchemeOutcomes(text) ==
  {c \in [1..NumSchemes -> {Raise, text} \cup {CONVERTED[k] : k \in 1..MaxConversions}] :
     \A i \in 1..NumSchemes :
       LET earlier == {c[j] : j \in 1..(i - 1)} \ {Raise, text}
       IN  c[i] \in {Raise, text} \cup earlier
             \cup (IF Cardinality(earlier) < MaxConversions
                   THEN {CONVERTED[Cardinality(earlier) + 1]} ELSE {})}

\* The bound on api_call_count: no new request is taken at the bound.
MaxApiCalls == 1

(***************************************************************************)
(* The health literacy tutor (Backend/health_literacy.py).                 *)
(***************************************************************************)
\* The conditions of self.health_knowledge_base['en'] (health_literacy.py:53-110),
\* in the dict's order.  Each holds the five fields symptoms, causes,
\* home_remedies, medicines and warning; the model keeps the condition's name
\* for them.
health_knowledge_base_en ==
  <<
    <<102, 101, 118, 101, 114>>,  \* 'fever'
    <<99, 111, 108, 100>>,  \* 'cold'
    <<99, 111, 117, 103, 104>>,  \* 'cough'
    <<104, 101, 97, 100, 97, 99, 104, 101>>,  \* 'headache'
    <<115, 116, 111, 109, 97, 99, 104, 95, 112, 97, 105, 110>>,  \* 'stomach_pain'
    <<100, 105, 97, 114, 114, 104, 101, 97>>,  \* 'diarrhea'
    <<100, 105, 97, 98, 101, 116, 101, 115>>,  \* 'diabetes'
    <<104, 121, 112, 101, 114, 116, 101, 110, 115, 105, 111, 110>>  \* 'hypertension'
  >>

\* The conditions of self.health_knowledge_base['mr'] (health_literacy.py:111-168),
\* in the dict's order.  Each holds the five fields symptoms, causes,
\* home_remedies, medicines and warning; the model keeps the condition's name
\* for them.
health_knowledge_base_mr ==
  <<
    <<2340, 2366, 2346>>,  \* 'ताप'
    <<2360, 2352, 2381, 2342, 2368>>,  \* 'सर्दी'
    <<2326, 2379, 2325, 2354, 2366>>,  \* 'खोकला'
    <<2337, 2379, 2325, 2375, 2342, 2369, 2326, 2368>>,  \* 'डोकेदुखी'
    <<2346, 2379, 2335, 2342, 2369, 2326, 2368>>,  \* 'पोटदुखी'
    <<2309, 2340, 2367, 2360, 2366, 2352>>,  \* 'अतिसार'
    <<2350, 2343, 2369, 2350, 2375, 2361>>,  \* 'मधुमेह'
    <<2313, 2330, 2381, 2330, 95, 2352, 2325, 2381, 2340, 2342, 2366, 2348>>  \* 'उच्च_रक्तदाब'
  >>

\* condition_keywords['en'] of get_basic_health_info (health_literacy.py:232-241),
\* in the dict's order; each entry is <<condition, keywords>>.
condition_keywords_en ==
  <<
    << <<102, 101, 118, 101, 114>>,  \* 'fever'
       << <<102, 101, 118, 101, 114>>,
          <<116, 101, 109, 112, 101, 114, 97, 116, 117, 114, 101>>,
          <<104, 111, 116, 32, 98, 111, 100, 121>>,
          <<98, 117, 114, 110, 105, 110, 103>> >> >>,  \* ['fever', 'temperature', 'hot body', 'burning']
    << <<99, 111, 108, 100>>,  \* 'cold'
       << <<99, 111, 108, 100>>,
          <<114, 117, 110, 110, 121, 32, 110, 111, 115, 101>>,
          <<115, 110, 101, 101, 122, 105, 110, 103>> >> >>,  \* ['cold', 'runny nose', 'sneezing']
    << <<99, 111, 117, 103, 104>>,  \* 'cough'
       << <<99, 111, 117, 103, 104>>,
          <<99, 111, 117, 103, 104, 105, 110, 103>>,
          <<116, 104, 114, 111, 97, 116>> >> >>,  \* ['cough', 'coughing', 'throat']
    << <<104, 101, 97, 100, 97, 99, 104, 101>>,  \* 'headache'
       << <<104, 101, 97, 100, 97, 99, 104, 101>>,
          <<104, 101, 97, 100, 32, 112, 97, 105, 110>>,
          <<109, 105, 103, 114, 97, 105, 110, 101>> >> >>,  \* ['headache', 'head pain', 'migraine']
    << <<115, 116, 111, 109, 97, 99, 104, 95, 112, 97, 105, 110>>,  \* 'stomach_pain'
       << <<115, 116, 111, 109, 97, 99, 104>>,
          <<98, 101, 108, 108, 121>>,
          <<97, 98, 100, 111, 109, 101, 110>>,
          <<116, 117, 109, 109, 121>> >> >>,  \* ['stomach', 'belly', 'abdomen', 'tummy']
    << <<100, 105, 97, 114, 114, 104, 101, 97>>,  \* 'diarrhea'
       << <<100, 105, 97, 114, 114, 104, 101, 97>>,
          <<108, 111, 111, 115, 101, 32, 109, 111, 116, 105, 111, 110>>,
          <<108, 111, 111, 115, 101, 32, 115, 116, 111, 111, 108>> >> >>,  \* ['diarrhea', 'loose motion', 'loose stool']
    << <<100, 105, 97, 98, 101, 116, 101, 115>>,  \* 'diabetes'
       << <<100, 105, 97, 98, 101, 116, 101, 115>>,
          <<115, 117, 103, 97, 114>>,
          <<98, 108, 111, 111, 100, 32, 115, 117, 103, 97, 114>> >> >>,  \* ['diabetes', 'sugar', 'blood sugar']
    << <<104, 121, 112, 101, 114, 116, 101, 110, 115, 105, 111, 110>>,  \* 'hypertension'
       << <<98, 108, 111, 111, 100, 32, 112, 114, 101, 115, 115, 117, 114, 101>>,
          <<98, 112>>,
          <<104, 121, 112, 101, 114, 116, 101, 110, 115, 105, 111, 110>> >> >>  \* ['blood pressure', 'bp', 'hypertension']
  >>

\* condition_keywords['mr'] of get_basic_health_info (health_literacy.py:242-251),
\* in the dict's order; each entry is <<condition, keywords>>.
condition_keywords_mr ==
  <<
    << <<2340, 2366, 2346>>,  \* 'ताप'
       << <<2340, 2366, 2346>>,
          <<2340, 2366, 2346, 2350, 2366, 2344>>,
          <<2327, 2352, 2350, 32, 2358, 2352, 2368, 2352>> >> >>,  \* ['ताप', 'तापमान', 'गरम शरीर']
    << <<2360, 2352, 2381, 2342, 2368>>,  \* 'सर्दी'
       << <<2360, 2352, 2381, 2342, 2368>>,
          <<2344, 2366, 2325, 32, 2357, 2366, 2361, 2339, 2375>>,
          <<2358, 2367, 2306, 2325, 2366>> >> >>,  \* ['सर्दी', 'नाक वाहणे', 'शिंका']
    << <<2326, 2379, 2325, 2354, 2366>>,  \* 'खोकला'
       << <<2326, 2379, 2325, 2354, 2366>>,
          <<2328, 2360, 2366>> >> >>,  \* ['खोकला', 'घसा']
    << <<2337, 2379, 2325, 2375, 2342, 2369, 2326, 2368>>,  \* 'डोकेदुखी'
       << <<2337, 2379, 2325, 2375, 2342, 2369, 2326, 2368>>,
          <<2337, 2379, 2325, 2375, 32, 2342, 2369, 2326, 2339, 2375>> >> >>,  \* ['डोकेदुखी', 'डोके दुखणे']
    << <<2346, 2379, 2335, 2342, 2369, 2326, 2368>>,  \* 'पोटदुखी'
       << <<2346, 2379, 2335>>,
          <<2346, 2379, 2335, 2342, 2369, 2326, 2368>>,
          <<2323, 2335, 2368, 2346, 2379, 2335>> >> >>,  \* ['पोट', 'पोटदुखी', 'ओटीपोट']
    << <<2309, 2340, 2367, 2360, 2366, 2352>>,  \* 'अतिसार'
       << <<2309, 2340, 2367, 2360, 2366, 2352>>,
          <<2332, 2369, 2354, 2366, 2348>> >> >>,  \* ['अतिसार', 'जुलाब']
    << <<2350, 2343, 2369, 2350, 2375, 2361>>,  \* 'मधुमेह'
       << <<2350, 2343, 2369, 2350, 2375, 2361>>,
          <<2360, 2366, 2326, 2352>>,
          <<2358, 2369, 2327, 2352>> >> >>,  \* ['मधुमेह', 'साखर', 'शुगर']
    << <<2313, 2330, 2381, 2330, 95, 2352, 2325, 2381, 2340, 2342, 2366, 2348>>,  \* 'उच्च_रक्तदाब'
       << <<2352, 2325, 2381, 2340, 2342, 2366, 2348>>,
          <<2348, 2368, 2346, 2368>>,
          <<2313, 2330, 2381, 2330, 32, 2352, 2325, 2381, 2340, 2342, 2366, 2348>> >> >>  \* ['रक्तदाब', 'बीपी', 'उच्च रक्तदाब']
  >>

\* 'hi': a language the tutor has no knowledge base for.
HI == <<104, 105>>

\* The languages a caller may pass to process_health_query.
HealthLanguages == {EN, MR, HI}

\* self.health_knowledge_base.get(language, {}): the conditions known.
health_knowledge_base(language) ==
  IF language = EN THEN health_knowledge_base_en
  ELSE IF language = MR THEN health_knowledge_base_mr
  ELSE <<>>

\* condition_keywords.get(language, {})
condition_keywords(language) ==
  IF language = EN THEN condition_keywords_en
  ELSE IF language = MR THEN condition_keywords_mr
  ELSE <<>>

\* any(kw in query_lower for kw in keywords)
AnyKeyword(keywords, query_lower) ==
  \E k \in 1..Len(keywords) : Contains(keywords[k], query_lower)

\* get_basic_health_info: the entry of the first condition, in the order
\* of keywords_map, one of whose keywords occurs in the lowercased query
\* (knowledge.get(condition): None if the knowledge base has no such
\* condition), or None when no keyword occurs.
get_basic_health_info(query, language) ==
  LET query_lower == Lower(query)
      knowledge == health_knowledge_base(language)
      keywords_map == condition_keywords(language)
      hits == {i \in 1..Len(keywords_map) :
                 AnyKeyword(keywords_map[i][2], query_lower)}
  IN  IF hits = {} THEN None
      ELSE LET condition == keywords_map[MinOf(hits)][1]
           IN  IF InList(knowledge, condition) THEN condition ELSE None

\* A response of the tutor: the text formatted from an entry of the
\* knowledge base (body: the entry), the canned text of
\* _get_fallback_response (body empty), or the text the LLM answered
\* (body: that text); template is the language of the wording, "en" or
\* "mr".
NoResponse == [kind |-> "none", template |-> "", body |-> <<>>]

\* The wording chosen by `if language == 'en': ... else:  # Marathi`.
TemplateOf(language) == IF language = EN THEN "en" ELSE "mr"

\* format_health_response
format_health_response(condition_info, language) ==
  [kind |-> "formatted", template |-> TemplateOf(language),
   body |-> condition_info]

\* _get_fallback_response
get_fallback_response(language) ==
  [kind |-> "canned", template |-> TemplateOf(language), body |-> <<>>]

\* What self.llm.invoke(messages) may do: raise (no network, a bad key, a
\* quota), or return a response whose content is a text, a text with
\* whitespace around it, the empty text, or a value that is not a str.
LLM_ANSWER == <<82, 101, 115, 116, 46>>  \* 'Rest.'
LLMOutcomes == {Raise, LLM_ANSWER, <<32>> \o LLM_ANSWER \o <<10>>, <<>>, NonString}

\* An LLM call whose failure is not caught.
get_ai_health_response_uncaught(query, language, langchain, has_llm, out) ==
  IF ~langchain \/ ~has_llm
  THEN [response |-> get_fallback_response(language), history |-> <<>>,
        called |-> FALSE]
  ELSE IF out = Raise
  THEN [response |-> [kind |-> "raised", template |-> "", body |-> <<>>],
        history |-> <<>>, called |-> TRUE]
  ELSE [response |-> [kind |-> "llm", template |-> TemplateOf(language),
                      body |-> IF out = NonString THEN out ELSE Strip(out)],
        history |-> <<[query |-> query, response |-> out,
                       language |-> language]>>,
        called |-> TRUE]

\* get_ai_health_response: the response returned, the entries appended to
\* self.conversation_history, and whether self.llm.invoke was called.  The
\* entry is appended before response.content.strip() is evaluated, so a
\* content that is not a str leaves its entry and then the except clause
\* returns the canned text.
get_ai_health_response(query, language, langchain, has_llm, out) ==
  IF ~langchain \/ ~has_llm
  THEN [response |-> get_fallback_response(language), history |-> <<>>,
        called |-> FALSE]
  ELSE IF out = Raise
  THEN [response |-> get_fallback_response(language), history |-> <<>>,
        called |-> TRUE]
  ELSE [response |-> IF out = NonString
                     THEN get_fallback_response(language)
                     ELSE [kind |-> "llm", template |-> TemplateOf(language),
                           body |-> Strip(out)],
        history |-> <<[query |-> query, response |-> out,
                       language |-> language]>>,
        called |-> TRUE]

\* The API keys the environment may hold: none, the placeholder of the
\* sample .env file, or a key.
ApiKeys == {"", "your_google_api_key_here", "key"}

\* HealthLiteracyTutor.__init__ and _initialize_llm: whether self.llm is
\* set once the object is built.  The call of line 173 is made for every
\* key that is not empty, the placeholder too; constructed says whether
\* ChatGoogleGenerativeAI(...) returned (it may raise).
tutor_llm(langchain, api_key, constructed) ==
  langchain /\ api_key # "" /\ constructed

(***************************************************************************)
(* translate without its cache, as a function of what the backends         *)
(* answer: responses[i] is what the backend of method i answers to every   *)
(* request of the call.                                                    *)
(***************************************************************************)

\* translate_with_mymemory, the backend answering out to every request:
\* the first attempt that passes its test returns out.
translate_with_mymemory(text, source_lang, target_lang, itrans, out) ==
  LET api_text == mymemory_api_text(text, source_lang, itrans)
      n == mymemory_attempts(source_lang, target_lang)
  IN  IF n = 1 THEN mymemory_single(api_text, out)[1]
      ELSE IF \E k \in 1..n :
                mymemory_attempt_ok(mymemory_attempt_text(k, text, api_text), out)
      THEN out ELSE None

\* What one call of translate_with_mymemory adds to api_call_count (line
\* 807): one when it ends without an answer it returns, nothing when it
\* returns an answer or when the request of the branch without Marathi
\* raises.
mymemory_count(text, source_lang, target_lang, itrans, out) ==
  LET api_text == mymemory_api_text(text, source_lang, itrans)
      n == mymemory_attempts(source_lang, target_lang)
  IN  IF n = 1 THEN mymemory_single(api_text, out)[2]
      ELSE IF \E k \in 1..n :
                mymemory_attempt_ok(mymemory_attempt_text(k, text, api_text), out)
      THEN 0 ELSE 1

\* method(variant, source_lang, target_lang) for the method at index i of
\* translation_methods (line 570), in a process without
\* indic_transliteration.
CallMethod(i, variant, source_lang, target_lang, out) ==
  IF translation_methods[i] \in {"googletrans", "deep_translator"}
  THEN translate_with_googletrans(variant, out)
  ELSE IF translation_methods[i] = "google_free"
  THEN translate_with_google_free(variant, out)
  ELSE IF translation_methods[i] = "mymemory"
  THEN translate_with_mymemory(variant, source_lang, target_lang, None, out)
  ELSE translate_with_passthrough(variant, out)

\* translate_with_multiple_variants (lines 549-582) in a process without
\* indic_transliteration: the first accepted result, variant by variant
\* and method by method, or None.
translate_with_multiple_variants(text, source_lang, target_lang, responses) ==
  LET variants == comprehensive_transliteration(text, FALSE, <<>>)
      nm == Len(translation_methods)
      Result(k) == CallMethod(((k - 1) % nm) + 1, variants[((k - 1) \div nm) + 1],
                              source_lang, target_lang,
                              responses[((k - 1) % nm) + 1])
      hits == {k \in 1..(Len(variants) * nm) :
                 accepted(Result(k), variants[((k - 1) \div nm) + 1])}
  IN  IF hits = {} THEN None ELSE Result(MinOf(hits))

\* What translate_with_multiple_variants adds to api_call_count: the loop
\* calls the methods variant by variant up to the first accepted result,
\* and every call of translate_with_mymemory among them counts as
\* mymemory_count says.
api_calls_added(text, source_lang, target_lang, responses) ==
  LET variants == comprehensive_transliteration(text, FALSE, <<>>)
      nm == Len(translation_methods)
      Result(k) == CallMethod(((k - 1) % nm) + 1, variants[((k - 1) \div nm) + 1],
                              source_lang, target_lang,
                              responses[((k - 1) % nm) + 1])
      hits == {k \in 1..(Len(variants) * nm) :
                 accepted(Result(k), variants[((k - 1) \div nm) + 1])}
      made == IF hits = {} THEN 1..(Len(variants) * nm) ELSE 1..MinOf(hits)
  IN  Cardinality({k \in made :
        /\ translation_methods[((k - 1) % nm) + 1] = "mymemory"
        /\ mymemory_count(variants[((k - 1) \div nm) + 1], source_lang,
                          target_lang, None,
                          responses[((k - 1) % nm) + 1]) = 1})

\* BilingualTranslationService.translate past the cache check, for a
\* source and a target given as 'en' or 'mr': the dictionary, the
\* providers, the fallback message (lines 1273-1309).
translate_uncached(text, source_lang, target_lang, responses) ==
  LET t == Strip(text)
      dictionary_translation == translate_with_dictionary(t, source_lang, target_lang)
      comprehensive_translation ==
        translate_with_multiple_variants(t, source_lang, target_lang, responses)
  IN  IF Truthy(dictionary_translation)
      THEN [translated_text |-> dictionary_translation, method |-> "dictionary"]
      ELSE IF Truthy(comprehensive_translation)
      THEN [translated_text |-> comprehensive_translation,
            method |-> "comprehensive_api"]
      ELSE [translated_text |-> fallback_msg(t), method |-> "fallback_message"]

(***************************************************************************)
(* The service.                                                            *)
(***************************************************************************)
VARIABLES
  LANGDETECT_AVAILABLE,  \* module flag: the langdetect import succeeded
  INDIC_AVAILABLE,       \* module flag: the indic_transliteration import succeeded
  client_texts,          \* the texts the clients of this run send
  client_source,         \* the source_language they send
  client_target,         \* the target_language they send
  translation_cache,     \* self.translation_cache: <<key, value>> in insertion order
  api_call_count,        \* self.api_call_count
  pc,                    \* where the request in progress is: "idle", "chain", "done"
  request,               \* the request in progress (NoRequest when there is none)
  cur_text,                  \* translate: the trimmed text
  detected_lang,         \* translate: detected_lang
  auto_target,           \* translate: auto_target
  cur_variants,              \* translate_with_multiple_variants: variants
  vi,                    \* the index of the variant being tried
  mi,                    \* the index of the method to call next
  invoked,               \* the calls made for this request: <<vi, mi, accepted>>
  attempt,               \* translate_with_mymemory: the attempts that have failed
  cur_api_text,              \* translate_with_mymemory: api_text
  last,                  \* the last operation completed: its request and response
  fn_text,               \* the text a caller passes to a function of the service
  fn_result,             \* the call made with it and the value returned
  call_outcome,          \* what the backend did in the last provider call of the request: "none", "failed", "answered"
  consulted,             \* translate: the tiers the request in progress has consulted, in order
  LANGCHAIN_AVAILABLE,   \* health_literacy.py module flag: the langchain imports succeeded
  llm,                   \* HealthLiteracyTutor: whether self.llm is set
  conversation_history,  \* HealthLiteracyTutor: self.conversation_history
  health_last,           \* the last call of process_health_query and what it returned
  transformers,          \* shabdsetu.py module flag: the transformers import succeeded
  translator_instance,   \* shabdsetu.py: _translator_instance (0 for None, else the number of the IndicTranslator)
  built,                 \* how many IndicTranslator objects the process has built
  lock,                  \* for each IndicTranslator, the thread that holds self._lock (0 when it is free)
  en2mr,                 \* for each IndicTranslator, self._en2mr (0 for None, else the number of the load that made the pair)
  mr2en,                 \* for each IndicTranslator, self._mr2en (the same)
  loaded,                \* for each direction, how many times its model was loaded with success
  threads                \* for each thread, where it is in translate_text of shabdsetu.py

vars ==
  <<LANGDETECT_AVAILABLE, INDIC_AVAILABLE, client_texts, client_source,
    client_target, translation_cache, api_call_count, pc, request, cur_text,
    detected_lang, auto_target, cur_variants, vi, mi, invoked, attempt,
    cur_api_text, last, fn_text, fn_result, call_outcome, consulted,
    LANGCHAIN_AVAILABLE,
    llm, conversation_history, health_last,
    transformers, translator_instance, built, lock, en2mr, mr2en, loaded,
    threads>>

env == <<LANGDETECT_AVAILABLE, INDIC_AVAILABLE, client_texts, client_source,
         client_target>>
fn == <<fn_text, fn_result>>
health == <<LANGCHAIN_AVAILABLE, llm, conversation_history, health_last>>
loader == <<transformers, translator_instance, built, lock, en2mr, mr2en,
           loaded, threads>>
locals == <<request, cur_text, detected_lang, auto_target, cur_variants, vi, mi,
           invoked, attempt, cur_api_text, call_outcome, consulted>>

\* A cache key built from the text as it was typed.
cache_key_raw(t, source, target) ==
  t \o UNDERSCORE \o source \o UNDERSCORE \o target

\* cache_key = f"{text.lower()}_{detected_lang}_{auto_target}"
cache_key(t, source, target) ==
  Lower(t) \o UNDERSCORE \o source \o UNDERSCORE \o target

\* A cache write that evicts the entries of the other keys.
CachePut_evict(cache, key, value) == <<<<key, value>>>>

\* self.translation_cache[key] = value
CachePut(cache, key, value) ==
  IF HasKey(cache, key)
  THEN [i \in 1..Len(cache) |->
          IF cache[i][1] = key THEN <<key, value>> ELSE cache[i]]
  ELSE Append(cache, <<key, value>>)

\* The record of an operation: what was asked and what was answered.  A
\* field an operation does not have holds None (0 for a number).
NoOperation ==
  [op |-> "none", text |-> None, source_lang |-> None, target_lang |-> None,
   status |-> 0, translated_text |-> None, source_language |-> None,
   target_language |-> None, method |-> "", cache_size |-> 0, removed |-> 0,
   api_calls_made |-> 0, cached_translations |-> <<>>,
   test_en_to_mr |-> None, test_mr_to_en |-> None]

\* The response of POST /translate (TranslationResponse) to request req.
TranslationResponse(req, translated_text, source_language, target_language, method) ==
  [NoOperation EXCEPT
     !.op = "translate", !.text = req.text, !.source_lang = req.source_lang,
     !.target_lang = req.target_lang, !.status = 200,
     !.translated_text = translated_text,
     !.source_language = source_language,
     !.target_language = target_language, !.method = method]

\* HTTPException(status_code=400, ...) raised by translate_text.
BadRequest(req) ==
  [NoOperation EXCEPT
     !.op = "translate", !.text = req.text, !.source_lang = req.source_lang,
     !.target_lang = req.target_lang, !.status = 400]

\* The requests the clients of this run send.
ClientRequests ==
  {[text |-> t, source_lang |-> client_source, target_lang |-> client_target] :
     t \in client_texts}

\* No request in progress.
NoRequest == [text |-> None, source_lang |-> None, target_lang |-> None]

\* BilingualTranslationService.__init__ (lines 84-88), and no request in
\* progress.
ServiceStart ==
  /\ translation_cache = <<>>
  /\ api_call_count = 0
  /\ pc = "idle"
  /\ request = NoRequest
  /\ cur_text = None
  /\ detected_lang = None
  /\ auto_target = None
  /\ cur_variants = <<>>
  /\ vi = 0
  /\ mi = 0
  /\ invoked = <<>>
  /\ attempt = 0
  /\ cur_api_text = None
  /\ call_outcome = "none"
  /\ consulted = <<>>
  /\ last = NoOperation

\* No call of a function from outside the request handlers.
NoCall ==
  [fn |-> "none", source_lang |-> None, target_lang |-> None, ld |-> "absent",
   value |-> None, origin |-> None, responses |-> <<>>]

\* No call of process_health_query yet.
NoHealthCall ==
  [query |-> None, language |-> None, out |-> None, response |-> NoResponse,
   source |-> "", llm_invoked |-> FALSE]

\* A process that has not built the health tutor (main.py does not import
\* health_literacy).
TutorAbsent ==
  /\ LANGCHAIN_AVAILABLE = FALSE
  /\ llm = FALSE
  /\ conversation_history = <<>>
  /\ health_last = NoHealthCall

\* The directions of IndicTranslator.translate.
Directions == {"en-mr", "mr-en"}

\* The bound on the threads that call translate_text of shabdsetu.py.
NumThreads == 2
Threads == 1..NumThreads

\* The IndicTranslator objects a process may build: a thread builds one only
\* when it finds _translator_instance None.
Instances == 1..NumThreads

\* A thread that is not in translate_text.
IdleThread ==
  [pc |-> "idle", dir |-> "none", tr |-> 0, pair |-> 0, result |-> "none"]

\* A process that has not built the speech translator (main.py does not
\* import shabdsetu).
TranslatorAbsent ==
  /\ transformers = FALSE
  /\ translator_instance = 0
  /\ built = 0
  /\ lock = [i \in Instances |-> 0]
  /\ en2mr = [i \in Instances |-> 0]
  /\ mr2en = [i \in Instances |-> 0]
  /\ loaded = [d \in Directions |-> 0]
  /\ threads = [th \in Threads |-> IdleThread]

\* The service once the module is imported: the module flags as the
\* imports left them, the clients of the run, and the service object.
Init ==
  /\ LANGDETECT_AVAILABLE \in BOOLEAN
  /\ INDIC_AVAILABLE \in BOOLEAN
  /\ client_texts \in ClientTextSets
  /\ \E p \in LanguagePairs : client_source = p[1] /\ client_target = p[2]
  /\ ServiceStart
  /\ fn_text = None
  /\ fn_result = NoCall
  /\ TutorAbsent
  /\ TranslatorAbsent

\* translate, lines 1237-1245: the resolved source language.
ResolveSource(t, source_lang, ld) ==
  IF source_lang = AUTO THEN advanced_language_detection(t, ld)
  ELSE IF source_lang = ENGLISH THEN EN
  ELSE IF source_lang = MARATHI THEN MR
  ELSE source_lang

\* translate, lines 1247-1256: the resolved target language.
ResolveTarget(detected, target_lang) ==
  IF target_lang = AUTO THEN (IF detected = MR THEN EN ELSE MR)
  ELSE IF target_lang = ENGLISH THEN EN
  ELSE IF target_lang = MARATHI THEN MR
  ELSE target_lang

\* What langdetect.detect may do for a request: it is called only when the
\* source is "auto", the text has no Devanagari and the library is there.
LangdetectNow(req) ==
  IF /\ LANGDETECT_AVAILABLE
     /\ req.source_lang = AUTO
     /\ ~HasDevanagari(req.text)
  THEN LangdetectOutcomes \ {"absent"} ELSE {"absent"}

\* What transliterate may do for the four schemes in this process.
IndicNow(t) ==
  IF INDIC_AVAILABLE THEN SchemeOutcomes(t)
  ELSE {[i \in 1..NumSchemes |-> None]}

\* POST /translate with empty or whitespace-only text: translate_text raises
\* HTTPException(400) before translate is called.
RejectEmpty(req) ==
  /\ request' = req
  /\ last' = BadRequest(req)
  /\ pc' = "done"
  /\ UNCHANGED <<translation_cache, api_call_count, cur_text, detected_lang,
                 auto_target, cur_variants, vi, mi, invoked, attempt,
                 cur_api_text, consulted>>

\* translate, answered from the cache.
AnswerFromCache(req, t, detected, target) ==
  /\ request' = req
  /\ cur_text' = t
  /\ detected_lang' = detected
  /\ auto_target' = target
  /\ last' = TranslationResponse(req,
                Lookup(translation_cache, cache_key(t, detected, target)),
                detected, target, "cache")
  /\ pc' = "done"
  /\ UNCHANGED <<translation_cache, api_call_count, cur_variants, vi, mi, invoked, attempt, cur_api_text>>

\* translate, answered by the dictionary.
AnswerFromDictionary(req, t, detected, target, dictionary_translation) ==
  /\ request' = req
  /\ cur_text' = t
  /\ detected_lang' = detected
  /\ auto_target' = target
  /\ translation_cache' = CachePut(translation_cache,
                             cache_key(t, detected, target),
                             dictionary_translation)
  /\ last' = TranslationResponse(req, dictionary_translation,
                                 detected, target, "dictionary")
  /\ pc' = "done"
  /\ UNCHANGED <<api_call_count, cur_variants, vi, mi, invoked, attempt, cur_api_text>>

\* translate past the dictionary: translate_with_multiple_variants builds
\* the variants and starts on the methods.
EnterChain(req, t, detected, target, converted) ==
  /\ request' = req
  /\ cur_text' = t
  /\ detected_lang' = detected
  /\ auto_target' = target
  /\ cur_variants' = comprehensive_transliteration(t, INDIC_AVAILABLE, converted)
  /\ vi' = 1
  /\ mi' = 1
  /\ invoked' = <<>>
  /\ pc' = "chain"
  /\ UNCHANGED <<translation_cache, api_call_count, last, attempt, cur_api_text>>

\* translate with the dictionary asked before the cache.
translate_dictionary_first(req, ld) ==
  LET t == Strip(req.text)
      detected == ResolveSource(t, req.source_lang, ld)
      target == ResolveTarget(detected, req.target_lang)
      dictionary_translation == translate_with_dictionary_of(t, detected, target)
  IN  IF Truthy(dictionary_translation)
      THEN /\ AnswerFromDictionary(req, t, detected, target, dictionary_translation)
           /\ consulted' = <<"dictionary">>
      ELSE IF HasKey(translation_cache, cache_key(t, detected, target))
      THEN /\ AnswerFromCache(req, t, detected, target)
           /\ consulted' = <<"dictionary", "cache">>
      ELSE /\ \E converted \in IndicNow(t) :
                EnterChain(req, t, detected, target, converted)
           /\ consulted' = <<"dictionary", "cache", "providers">>

\* BilingualTranslationService.translate on a text that is not empty once
\* trimmed, up to its answer or to the first provider call; ld is what
\* langdetect does.
translate(req, ld) ==
  LET t == Strip(req.text)
      detected == ResolveSource(t, req.source_lang, ld)
      target == ResolveTarget(detected, req.target_lang)
      dictionary_translation == translate_with_dictionary_of(t, detected, target)
  IN  IF HasKey(translation_cache, cache_key(t, detected, target))
      THEN /\ AnswerFromCache(req, t, detected, target)
           /\ consulted' = <<"cache">>
      ELSE IF Truthy(dictionary_translation)
      THEN /\ AnswerFromDictionary(req, t, detected, target, dictionary_translation)
           /\ consulted' = <<"cache", "dictionary">>
      ELSE /\ \E converted \in IndicNow(t) :
                EnterChain(req, t, detected, target, converted)
           /\ consulted' = <<"cache", "dictionary", "providers">>

\* POST /translate without the test for an empty text.
translate_text_unchecked ==
  /\ pc = "idle"
  /\ api_call_count < MaxApiCalls
  /\ UNCHANGED <<env, fn, health, loader, call_outcome>>
  /\ \E req \in ClientRequests :
       \E ld \in LangdetectNow(req) : translate(req, ld)

\* POST /translate: translate_text and translate, up to the answer or to
\* the first provider call.
translate_text ==
  /\ pc = "idle"
  /\ api_call_count < MaxApiCalls
  /\ UNCHANGED <<env, fn, health, loader, call_outcome>>
  /\ \E req \in ClientRequests :
       IF Strip(req.text) = <<>> THEN RejectEmpty(req)
       ELSE \E ld \in LangdetectNow(req) : translate(req, ld)

\* A loop that does not stop at an accepted result: the result is cached
\* and the next method is called.
AfterCall_no_stop(result, inc) ==
  LET variant == cur_variants[vi]
      key == cache_key(cur_text, detected_lang, auto_target)
  IN  /\ api_call_count' = api_call_count + inc
      /\ invoked' = Append(invoked, <<vi, mi, accepted(result, variant)>>)
      /\ translation_cache' = IF accepted(result, variant)
                              THEN CachePut(translation_cache, key, result)
                              ELSE translation_cache
      /\ IF mi < Len(translation_methods)
         THEN /\ mi' = mi + 1
              /\ UNCHANGED <<vi, pc, last>>
         ELSE IF vi < Len(cur_variants)
         THEN /\ vi' = vi + 1
              /\ mi' = 1
              /\ UNCHANGED <<pc, last>>
         ELSE /\ last' = TranslationResponse(request, fallback_msg(cur_text),
                           detected_lang, auto_target, "fallback_message")
              /\ pc' = "done"
              /\ UNCHANGED <<vi, mi>>
      /\ consulted' = IF pc' = "done" /\ last'.method = "fallback_message"
                      THEN Append(consulted, "fallback") ELSE consulted
      /\ attempt' = 0
      /\ cur_api_text' = None
      /\ UNCHANGED <<env, fn, health, loader, request, cur_text, detected_lang, auto_target, cur_variants>>

\* A loop that calls a method again when its result is not accepted.
AfterCall_again(result, inc) ==
  LET variant == cur_variants[vi]
      key == cache_key(cur_text, detected_lang, auto_target)
  IN  /\ api_call_count' = api_call_count + inc
      /\ IF accepted(result, variant)
         THEN /\ invoked' = Append(invoked, <<vi, mi, TRUE>>)
              /\ translation_cache' = CachePut(translation_cache, key, result)
              /\ last' = TranslationResponse(request, result, detected_lang,
                                             auto_target, "comprehensive_api")
              /\ pc' = "done"
              /\ UNCHANGED <<vi, mi>>
         ELSE /\ invoked' = Append(invoked, <<vi, mi, FALSE>>)
              /\ UNCHANGED <<translation_cache, vi, mi, pc, last>>
      /\ UNCHANGED consulted
      /\ attempt' = 0
      /\ cur_api_text' = None
      /\ UNCHANGED <<env, fn, health, loader, request, cur_text, detected_lang, auto_target, cur_variants>>

\* The rest of translate_with_multiple_variants and of translate after the
\* method at mi was called on the variant at vi and returned result, having
\* added inc to api_call_count: the result is accepted, cached under the
\* key of the request and returned; or the next method, the next variant,
\* or the fallback message follows.
AfterCall(result, inc) ==
  LET variant == cur_variants[vi]
      key == cache_key(cur_text, detected_lang, auto_target)
  IN  /\ api_call_count' = api_call_count + inc
      /\ IF accepted(result, variant)
         THEN /\ invoked' = Append(invoked, <<vi, mi, TRUE>>)
              /\ translation_cache' = CachePut(translation_cache, key, result)
              /\ last' = TranslationResponse(request, result, detected_lang,
                                             auto_target, "comprehensive_api")
              /\ pc' = "done"
              /\ UNCHANGED <<vi, mi>>
         ELSE /\ invoked' = Append(invoked, <<vi, mi, FALSE>>)
              /\ UNCHANGED translation_cache
              /\ IF mi < Len(translation_methods)
                 THEN /\ mi' = mi + 1
                      /\ UNCHANGED <<vi, pc, last>>
                 ELSE IF vi < Len(cur_variants)
                 THEN /\ vi' = vi + 1
                      /\ mi' = 1
                      /\ UNCHANGED <<pc, last>>
                 ELSE /\ last' = TranslationResponse(request, fallback_msg(cur_text),
                                   detected_lang, auto_target, "fallback_message")
                      /\ pc' = "done"
                      /\ UNCHANGED <<vi, mi>>
      /\ consulted' = IF pc' = "done" /\ last'.method = "fallback_message"
                      THEN Append(consulted, "fallback") ELSE consulted
      /\ attempt' = 0
      /\ cur_api_text' = None
      /\ UNCHANGED <<env, fn, health, loader, request, cur_text, detected_lang, auto_target, cur_variants>>

\* The loop body for translate_with_googletrans and
\* translate_with_deep_translator.
InvokeChecked ==
  /\ pc = "chain"
  /\ translation_methods[mi] \in {"googletrans", "deep_translator"}
  /\ \E out \in BackendOutcomes(cur_variants[vi]) :
       /\ AfterCall(translate_with_googletrans(cur_variants[vi], out), 0)
       /\ call_outcome' = OutcomeClass(out)

\* The loop body for translate_with_google_free.
InvokeGoogleFree ==
  /\ pc = "chain"
  /\ translation_methods[mi] = "google_free"
  /\ \E out \in BackendOutcomes(cur_variants[vi]) :
       /\ AfterCall(translate_with_google_free(cur_variants[vi], out), 0)
       /\ call_outcome' = OutcomeClass(out)

\* One request of translate_with_mymemory, called from the loop body: the
\* only request when no language is Marathi, or attempt number attempt + 1
\* of the three.  transliterate is called before the first request, and
\* only for a Marathi source text without Devanagari.  A failed attempt
\* before the last leads to the next attempt; the last one adds one to
\* api_call_count and returns None.
InvokeMyMemory ==
  /\ pc = "chain"
  /\ translation_methods[mi] = "mymemory"
  /\ LET variant == cur_variants[vi]
         n == mymemory_attempts(detected_lang, auto_target)
         k == attempt + 1
         itranses == IF attempt > 0 THEN {None}
                     ELSE IF /\ INDIC_AVAILABLE
                             /\ detected_lang = MR
                             /\ ~HasDevanagari(variant)
                     THEN IndicOutcomes(variant) ELSE {None}
     IN  \E itrans \in itranses :
           LET api == IF attempt > 0 THEN cur_api_text
                      ELSE mymemory_api_text(variant, detected_lang, itrans)
               attempt_text == mymemory_attempt_text(k, variant, api)
           IN  \E out \in MyMemoryOutcomes(attempt_text, variant) :
                 /\ call_outcome' = OutcomeClass(out)
                 /\ IF n = 1
                    THEN AfterCall(mymemory_single(api, out)[1],
                                   mymemory_single(api, out)[2])
                    ELSE IF mymemory_attempt_ok(attempt_text, out)
                    THEN AfterCall(out, 0)
                    ELSE IF k < n
                    THEN /\ attempt' = k
                         /\ cur_api_text' = api
                         /\ UNCHANGED <<env, fn, health, loader, translation_cache, api_call_count,
                                        pc, request, cur_text, detected_lang,
                                        auto_target, cur_variants, vi, mi,
                                        invoked, last, consulted>>
                    ELSE AfterCall(None, 1)

\* The loop body for translate_with_microsoft, translate_with_bing,
\* translate_with_lingva, translate_with_libre and translate_with_apertium.
InvokePassthrough ==
  /\ pc = "chain"
  /\ translation_methods[mi] \in {"microsoft", "bing", "lingva", "libre", "apertium"}
  /\ \E out \in BackendOutcomes(cur_variants[vi]) :
       /\ AfterCall(translate_with_passthrough(cur_variants[vi], out), 0)
       /\ call_outcome' = OutcomeClass(out)

\* translate_text returns the response (or the HTTPException leaves it):
\* the request is over and its locals are gone.
Return ==
  /\ pc = "done"
  /\ pc' = "idle"
  /\ request' = NoRequest
  /\ cur_text' = None
  /\ detected_lang' = None
  /\ auto_target' = None
  /\ cur_variants' = <<>>
  /\ vi' = 0
  /\ mi' = 0
  /\ invoked' = <<>>
  /\ call_outcome' = "none"
  /\ consulted' = <<>>
  /\ UNCHANGED <<env, fn, health, loader, translation_cache, api_call_count, last, attempt, cur_api_text>>

\* list(self.translation_cache.keys())[:10]
StatsSample == 10
FirstKeys(cache) ==
  [i \in 1..(IF Len(cache) < StatsSample THEN Len(cache) ELSE StatsSample) |->
     cache[i][1]]

\* GET /health
health_check ==
  /\ pc = "idle"
  /\ last' = [NoOperation EXCEPT
                !.op = "health", !.status = 200,
                !.api_calls_made = api_call_count,
                !.cache_size = Len(translation_cache),
                !.test_en_to_mr = translate_with_dictionary(T_hello, EN, MR),
                !.test_mr_to_en = translate_with_dictionary(T_namaskar, MR, EN)]
  /\ UNCHANGED <<env, fn, health, loader, translation_cache, api_call_count, pc, locals>>

\* GET /stats
get_stats ==
  /\ pc = "idle"
  /\ last' = [NoOperation EXCEPT
                !.op = "stats", !.status = 200,
                !.api_calls_made = api_call_count,
                !.cache_size = Len(translation_cache),
                !.cached_translations = FirstKeys(translation_cache)]
  /\ UNCHANGED <<env, fn, health, loader, translation_cache, api_call_count, pc, locals>>

\* POST /clear-cache that reports the size and leaves the cache as it is.
clear_cache_kept ==
  /\ pc = "idle"
  /\ UNCHANGED translation_cache
  /\ last' = [NoOperation EXCEPT
                !.op = "clear", !.status = 200,
                !.removed = Len(translation_cache),
                !.cache_size = Len(translation_cache)]
  /\ UNCHANGED <<env, fn, health, loader, api_call_count, pc, locals>>

\* POST /clear-cache served while a translate is between its cache check
\* and its answer.
clear_cache_anytime ==
  /\ translation_cache' = <<>>
  /\ last' = [NoOperation EXCEPT
                !.op = "clear", !.status = 200,
                !.removed = Len(translation_cache),
                !.cache_size = Len(translation_cache')]
  /\ UNCHANGED <<env, fn, health, loader, api_call_count, pc, locals>>

\* POST /clear-cache that resets the counter of the API calls too.
clear_cache_reset ==
  /\ pc = "idle"
  /\ translation_cache' = <<>>
  /\ api_call_count' = 0
  /\ last' = [NoOperation EXCEPT
                !.op = "clear", !.status = 200,
                !.removed = Len(translation_cache),
                !.cache_size = Len(translation_cache')]
  /\ UNCHANGED <<env, fn, health, loader, pc, locals>>

\* POST /clear-cache
clear_cache ==
  /\ pc = "idle"
  /\ translation_cache' = <<>>
  /\ last' = [NoOperation EXCEPT
                !.op = "clear", !.status = 200,
                !.removed = Len(translation_cache),
                !.cache_size = Len(translation_cache')]
  /\ UNCHANGED <<env, fn, health, loader, api_call_count, pc, locals>>

Next ==
  \/ translate_text
  \/ InvokeChecked
  \/ InvokeGoogleFree
  \/ InvokeMyMemory
  \/ InvokePassthrough
  \/ Return
  \/ health_check
  \/ get_stats
  \/ clear_cache

Spec == Init /\ [][Next]_vars

\* The service when every HTTP request to a backend ends and the loop of
\* translate_with_multiple_variants goes on to its next call: the seven
\* methods that call requests.get or session.post pass timeout=10.
\* translate_with_googletrans and translate_with_deep_translator call
\* their libraries without a timeout (lines 684, 712): nothing in the code
\* ends such a call, and InvokeChecked has no fairness condition.
LiveSpec ==
  /\ Init
  /\ [][Next]_vars
  /\ WF_vars(InvokeGoogleFree)
  /\ WF_vars(InvokeMyMemory)
  /\ WF_vars(InvokePassthrough)

(***************************************************************************)
(* The functions of the service called on their own: a caller passes a     *)
(* text to detect_language, to advanced_language_detection or to           *)
(* translate_with_dictionary, and may pass the text a lookup returned to   *)
(* the lookup in the other direction.                                      *)
(***************************************************************************)

\* The code points of the short texts: the two ends of the Devanagari block
\* (U+0900, U+097F), the code points next to them (U+08FF, U+0980), a Latin
\* letter, a space and a question mark.
Alphabet == {2303, 2304, 2431, 2432, 97, 32, 63}

\* The bound on the length of the short texts.
MaxLen == 3
BoundedTexts == UNION {[1..n -> Alphabet] : n \in 0..MaxLen}

\* 'what is your name and how are you': a sentence of English words
T_sentence ==
  <<119, 104, 97, 116, 32, 105, 115, 32, 121, 111, 117, 114, 32, 110, 97, 109, 101, 32, 97, 110, 100, 32, 104, 111, 119, 32, 97, 114, 101, 32, 121, 111, 117>>

\* The sentence with one Devanagari code point put in it.
InsertAt(s, k, c) == SubSeq(s, 1, k) \o <<c>> \o SubSeq(s, k + 1, Len(s))
MixedTexts ==
  {InsertAt(T_sentence, k, c) :
     k \in {0, 4, Len(T_sentence)}, c \in {2304, 2325, 2431}}

\* The keys of en_to_mr.
KeyTexts == {en_to_mr[i][1] : i \in 1..Len(en_to_mr)}

\* 'family': an English word with the letters of 'mi' in it
T_family == <<102, 97, 109, 105, 108, 121>>
\* 'kasa friend': one romanized Marathi word and one English word
T_kasa_friend == <<107, 97, 115, 97, 32, 102, 114, 105, 101, 110, 100>>

\* 'good  morning': a key of en_to_mr typed with two spaces
T_good__morning == <<103, 111, 111, 100, 32, 32, 109, 111, 114, 110, 105, 110, 103>>

\* 'नमस्कार!': a key of mr_to_en with an exclamation mark after it
T_namaskar_excl == <<2344, 2350, 2360, 2381, 2325, 2366, 2352, 33>>

\* 'मला प्रोग्रामिंग शिकायचे आहे मी काम करत आहे': two keys of mr_to_en, the
\* longer one first
T_two_phrases ==
  <<2350, 2354, 2366, 32, 2346, 2381, 2352, 2379, 2327, 2381, 2352, 2366, 2350, 2367, 2306, 2327, 32, 2358, 2367, 2325, 2366, 2351, 2330, 2375, 32, 2310, 2361, 2375, 32, 2350, 2368, 32, 2325, 2366, 2350, 32, 2325, 2352, 2340, 32, 2310, 2361, 2375>>
\* 'mi programming shikat ahe zz': a key of romanized_mr_to_en that holds
\* a shorter key, and a word in no table
T_learning_zz ==
  <<109, 105, 32, 112, 114, 111, 103, 114, 97, 109, 109, 105, 110, 103, 32, 115, 104, 105, 107, 97, 116, 32, 97, 104, 101, 32, 122, 122>>

\* 'pani jevan': two words of romanized_mr_to_en that make no phrase
T_water_meal == <<112, 97, 110, 105, 32, 106, 101, 118, 97, 110>>
\* 'pani jevan zq': the two words and a word in no table
T_two_of_three == <<112, 97, 110, 105, 32, 106, 101, 118, 97, 110, 32, 122, 113>>
\* 'pani jevan ghar zq': three words of the table and a word in no table
T_three_of_four ==
  <<112, 97, 110, 105, 32, 106, 101, 118, 97, 110, 32, 103, 104, 97, 114, 32, 122, 113>>

\* The texts a caller may pass.
FnTexts ==
  BoundedTexts \cup MixedTexts \cup KeyTexts
    \cup {T_sentence, T_garbled, T_namaskar_dev, T_namaskar, T_mi_kasa,
          T_family, T_kasa_friend, T_good__morning, T_namaskar_excl,
          T_two_phrases, T_learning_zz, T_water_meal, T_two_of_three,
          T_three_of_four, T_Hello}

service ==
  <<translation_cache, api_call_count, pc, locals, last>>

\* The service as Init leaves it, in a process without the optional
\* libraries, and a caller holding a text.
InitFn ==
  /\ LANGDETECT_AVAILABLE = FALSE
  /\ INDIC_AVAILABLE = FALSE
  /\ client_texts = {T_hello}
  /\ client_source = AUTO
  /\ client_target = AUTO
  /\ ServiceStart
  /\ fn_text \in FnTexts
  /\ fn_result = NoCall
  /\ TutorAbsent
  /\ TranslatorAbsent

\* self.detect_language(fn_text)
CallDetectLanguage ==
  /\ fn_result = NoCall
  /\ fn_result' = [NoCall EXCEPT !.fn = "detect_language",
                                 !.value = detect_language(fn_text)]
  /\ UNCHANGED <<env, health, loader, service, fn_text>>

\* self.advanced_language_detection(fn_text), langdetect absent or doing
\* any of the things it may do.
CallAdvancedLanguageDetection ==
  /\ fn_result = NoCall
  /\ \E ld \in LangdetectOutcomes :
       fn_result' = [NoCall EXCEPT
                       !.fn = "advanced_language_detection", !.ld = ld,
                       !.value = advanced_language_detection(fn_text, ld)]
  /\ UNCHANGED <<env, health, loader, service, fn_text>>

\* self.translate_with_dictionary(fn_text, source_lang, target_lang)
CallDictionary ==
  /\ fn_result = NoCall
  /\ \E direction \in {<<EN, MR>>, <<MR, EN>>} :
       fn_result' = [NoCall EXCEPT
                       !.fn = "translate_with_dictionary",
                       !.source_lang = direction[1],
                       !.target_lang = direction[2],
                       !.value = translate_with_dictionary(
                                   fn_text, direction[1], direction[2])]
  /\ UNCHANGED <<env, health, loader, service, fn_text>>

\* The text a lookup returned is looked up in the other direction; origin
\* is the text the first lookup was given.
CallDictionaryBack ==
  /\ fn_result.fn = "translate_with_dictionary"
  /\ fn_result.origin = None
  /\ fn_result.value # None
  /\ fn_text' = fn_result.value
  /\ fn_result' = [fn_result EXCEPT
                     !.source_lang = fn_result.target_lang,
                     !.target_lang = fn_result.source_lang,
                     !.value = translate_with_dictionary(
                                 fn_result.value, fn_result.target_lang,
                                 fn_result.source_lang),
                     !.origin = fn_text]
  /\ UNCHANGED <<env, health, loader, service>>

\* self.romanized_to_devanagari(fn_text); transliterate is called only when
\* the library is there.
CallRomanizedToDevanagari ==
  /\ fn_result = NoCall
  /\ \E itrans \in (IF INDIC_AVAILABLE THEN IndicOutcomes(fn_text) ELSE {None}) :
       fn_result' = [NoCall EXCEPT
                       !.fn = "romanized_to_devanagari",
                       !.value = romanized_to_devanagari(fn_text, itrans)]
  /\ UNCHANGED <<env, health, loader, service, fn_text>>

\* Every backend answers out to every request.
Uniform(out) == [i \in 1..Len(translation_methods) |-> out]

\* The same in a process without googletrans and deep_translator
\* (GOOGLETRANS_AVAILABLE and DEEP_TRANSLATOR_AVAILABLE False): the two
\* methods return None.
WithoutLibraries(out) ==
  [i \in 1..Len(translation_methods) |-> IF i <= 2 THEN None ELSE out]

\* The backend of the method at index i answers out, the backends of the
\* other methods answer without a translation (a status other than 200).
OnlyMethod(i, out) ==
  [j \in 1..Len(translation_methods) |-> IF j = i THEN out ELSE None]

\* What the backends answer during one call of translate: all of them the
\* same (nothing, an exception, a translation, a text that may be the text
\* sent, an error text), or one of them alone: MyMemory, the one after it,
\* or the last.
ResponseSets ==
  {Uniform(None), Uniform(Raise), Uniform(DEV_RESULT), Uniform(ASCII_RESULT),
   Uniform(T_hello), Uniform(T_Hello), Uniform(ERROR_RESULT),
   WithoutLibraries(T_hello)}
    \cup {OnlyMethod(i, out) : i \in {4, 5, Len(translation_methods)},
                               out \in {DEV_RESULT, T_Hello}}

\* self.translate(fn_text, source_lang, target_lang), the text not empty
\* once trimmed and the languages given as 'en' or 'mr': the answer of the
\* cache when the key is there; otherwise the dictionary's or the
\* providers' answer, which is stored under the key, or the fallback
\* message, which is not; the calls of translate_with_mymemory that gave
\* nothing are added to api_call_count.
CallTranslate ==
  /\ fn_result = NoCall
  /\ Strip(fn_text) # <<>>
  /\ \E direction \in {<<EN, MR>>, <<MR, EN>>, <<EN, EN>>} :
       \E responses \in ResponseSets :
         LET t == Strip(fn_text)
             k == cache_key(t, direction[1], direction[2])
             answer == translate_uncached(fn_text, direction[1], direction[2],
                                          responses)
         IN  IF HasKey(translation_cache, k)
             THEN /\ fn_result' = [NoCall EXCEPT
                                     !.fn = "translate",
                                     !.source_lang = direction[1],
                                     !.target_lang = direction[2],
                                     !.responses = responses,
                                     !.value = Lookup(translation_cache, k)]
                  /\ UNCHANGED <<translation_cache, api_call_count>>
             ELSE /\ fn_result' = [NoCall EXCEPT
                                     !.fn = "translate",
                                     !.source_lang = direction[1],
                                     !.target_lang = direction[2],
                                     !.responses = responses,
                                     !.value = answer.translated_text]
                  /\ translation_cache' =
                       IF answer.method = "fallback_message"
                       THEN translation_cache
                       ELSE CachePut(translation_cache, k, answer.translated_text)
                  /\ api_call_count' =
                       IF answer.method = "dictionary" THEN api_call_count
                       ELSE api_call_count
                              + api_calls_added(t, direction[1], direction[2],
                                                responses)
  /\ UNCHANGED <<env, health, loader, pc, locals, last, fn_text>>

NextFn ==
  \/ CallDetectLanguage
  \/ CallAdvancedLanguageDetection
  \/ CallDictionary
  \/ CallDictionaryBack
  \/ CallRomanizedToDevanagari
  \/ CallTranslate

SpecFn == InitFn /\ [][NextFn]_vars

(***************************************************************************)
(* The health tutor called on its own: process_health_query.               *)
(***************************************************************************)

Q_i_have_fever ==
  <<73, 32, 104, 97, 118, 101, 32, 102, 101, 118, 101, 114>>  \* 'I have fever': the query of Test 1 of test_health_module.py
Q_mala_tap ==
  <<2350, 2354, 2366, 32, 2340, 2366, 2346, 32, 2310, 2361, 2375>>  \* 'मला ताप आहे': the query of Test 2
Q_hello ==
  <<72, 101, 108, 108, 111, 32, 104, 111, 119, 32, 97, 114, 101, 32, 121, 111, 117>>  \* 'Hello how are you': no keyword of any condition
Q_bp ==
  <<77, 121, 32, 66, 80, 32, 105, 115, 32, 104, 105, 103, 104>>  \* 'My BP is high': a keyword in capitals
Q_throat_fever ==
  <<115, 111, 114, 101, 32, 116, 104, 114, 111, 97, 116, 32, 97, 110, 100, 32, 102, 101, 118, 101, 114>>  \* 'sore throat and fever': keywords of two conditions, cough and fever
Q_dokedukhi ==
  <<2350, 2354, 2366, 32, 2337, 2379, 2325, 2375, 2342, 2369, 2326, 2368, 32, 2310, 2361, 2375>>  \* 'मला डोकेदुखी आहे': a Marathi query of Test 3
Q_loose_motion ==
  <<108, 111, 111, 115, 101, 32, 109, 111, 116, 105, 111, 110, 32, 115, 105, 110, 99, 101, 32, 109, 111, 114, 110, 105, 110, 103>>  \* 'loose motion since morning': a keyword of two words
Q_mala_tap_ahe ==
  <<109, 97, 108, 97, 32, 116, 97, 112, 32, 97, 104, 101>>  \* 'mala tap ahe': romanized Marathi, no keyword

\* The queries a caller may pass to process_health_query.
HealthQueries ==
  {Q_i_have_fever, Q_mala_tap, Q_hello, Q_bp, Q_throat_fever, Q_dokedukhi,
   Q_loose_motion, Q_mala_tap_ahe}

\* The bound on conversation_history: no call is made once it is this long.
MaxHistory == 1

\* The tutor once get_health_tutor has built it, in a process where the
\* translation service is as Init leaves it and is not called.
InitHealth ==
  /\ LANGDETECT_AVAILABLE = FALSE
  /\ INDIC_AVAILABLE = FALSE
  /\ client_texts = {T_hello}
  /\ client_source = AUTO
  /\ client_target = AUTO
  /\ ServiceStart
  /\ TranslatorAbsent
  /\ fn_text = None
  /\ fn_result = NoCall
  /\ LANGCHAIN_AVAILABLE \in BOOLEAN
  /\ \E api_key \in ApiKeys, constructed \in BOOLEAN :
       llm = tutor_llm(LANGCHAIN_AVAILABLE, api_key, constructed)
  /\ conversation_history = <<>>
  /\ health_last = NoHealthCall

\* HealthLiteracyTutor.process_health_query(query, language)
process_health_query ==
  /\ Len(conversation_history) < MaxHistory
  /\ \E query \in HealthQueries, language \in HealthLanguages :
       LET basic_info == get_basic_health_info(query, language)
       IN  IF basic_info # None
           THEN /\ health_last' =
                     [query |-> query, language |-> language, out |-> None,
                      response |-> format_health_response(basic_info, language),
                      source |-> "knowledge_base", llm_invoked |-> FALSE]
                /\ UNCHANGED conversation_history
           ELSE IF llm
           THEN \E out \in LLMOutcomes :
                  LET ai_response ==
                        get_ai_health_response(query, language,
                                               LANGCHAIN_AVAILABLE, llm, out)
                  IN  /\ health_last' =
                           [query |-> query, language |-> language,
                            out |-> out, response |-> ai_response.response,
                            source |-> "ai",
                            llm_invoked |-> ai_response.called]
                      /\ conversation_history' =
                           conversation_history \o ai_response.history
           ELSE /\ health_last' =
                     [query |-> query, language |-> language, out |-> None,
                      response |-> get_fallback_response(language),
                      source |-> "fallback", llm_invoked |-> FALSE]
                /\ UNCHANGED conversation_history
  /\ UNCHANGED <<env, fn, loader, service, LANGCHAIN_AVAILABLE, llm>>

NextHealth == process_health_query

SpecHealth == InitHealth /\ [][NextHealth]_vars

(***************************************************************************)
(* The speech translator of shabdsetu.py: threads that call translate_text, *)
(* which takes the process's IndicTranslator from get_translator and calls *)
(* its translate; _load builds a direction's (tokenizer, model) pair on    *)
(* the first call and keeps it in the IndicTranslator.                     *)
(***************************************************************************)

\* The directions a caller may ask for: src and tgt are 'en' or 'mr'.
CallDirections == {"en-mr", "mr-en", "en-en", "mr-mr"}

\* self._en2mr or self._mr2en of IndicTranslator i, the pair stored for a
\* direction (0 for None).
StoredPair(i, d) == IF d = "en-mr" THEN en2mr[i] ELSE mr2en[i]

\* `with self._lock:` a thread enters the block only when the lock is free.
Lock_acquire(holder) == holder = 0

\* The process that imported shabdsetu.py: the transformers import
\* succeeded or not, and _translator_instance is None.  The translation
\* service is as Init leaves it and is not called.
InitLoader ==
  /\ LANGDETECT_AVAILABLE = FALSE
  /\ INDIC_AVAILABLE = FALSE
  /\ client_texts = {T_hello}
  /\ client_source = AUTO
  /\ client_target = AUTO
  /\ ServiceStart
  /\ fn_text = None
  /\ fn_result = NoCall
  /\ TutorAbsent
  /\ transformers \in BOOLEAN
  /\ translator_instance = 0
  /\ built = 0
  /\ lock = [i \in Instances |-> 0]
  /\ en2mr = [i \in Instances |-> 0]
  /\ mr2en = [i \in Instances |-> 0]
  /\ loaded = [d \in Directions |-> 0]
  /\ threads = [th \in Threads |-> IdleThread]

\* translate_text calls get_translator, which tests
\* `_translator_instance is None`: the thread goes on to build an
\* IndicTranslator, or to return the one there is.
get_translator(th) ==
  /\ threads[th].pc = "idle"
  /\ \E d \in CallDirections :
       threads' = [threads EXCEPT ![th] =
         [IdleThread EXCEPT
            !.pc = IF translator_instance = 0 THEN "build" ELSE "fetch",
            !.dir = d]]
  /\ UNCHANGED <<transformers, translator_instance, built, lock, en2mr, mr2en, loaded>>
  /\ UNCHANGED <<env, fn, health, service>>

\* get_translator: `_translator_instance = IndicTranslator()`, with no lock
\* around the test and the assignment.
get_translator_store(th) ==
  /\ threads[th].pc = "build"
  /\ built' = built + 1
  /\ translator_instance' = built + 1
  /\ threads' = [threads EXCEPT ![th].pc = "fetch"]
  /\ UNCHANGED <<transformers, lock, en2mr, mr2en, loaded>>
  /\ UNCHANGED <<env, fn, health, service>>

\* get_translator: `return _translator_instance`, the object the global
\* names now.
get_translator_return(th) ==
  /\ threads[th].pc = "fetch"
  /\ threads' = [threads EXCEPT ![th].pc = "call", ![th].tr = translator_instance]
  /\ UNCHANGED <<transformers, translator_instance, built, lock, en2mr, mr2en, loaded>>
  /\ UNCHANGED <<env, fn, health, service>>

\* translate up to the entry of _load's `with` block: an unsupported
\* direction raises ValueError (translate_text returns the text); without
\* transformers _load raises RuntimeError, which translate answers with
\* heuristic_fallback; otherwise the thread waits for the lock.
IndicTranslator_translate(th) ==
  /\ threads[th].pc = "call"
  /\ threads' = [threads EXCEPT
       ![th].pc = IF threads[th].dir \in Directions /\ transformers
                  THEN "waiting" ELSE "returned",
       ![th].result = IF threads[th].dir \notin Directions THEN "ValueError"
                      ELSE IF ~transformers THEN "fallback" ELSE "none"]
  /\ UNCHANGED <<transformers, translator_instance, built, lock, en2mr, mr2en, loaded>>
  /\ UNCHANGED <<env, fn, health, service>>

\* _load: the thread enters the `with self._lock:` block.
load_enter(th) ==
  /\ threads[th].pc = "waiting"
  /\ Lock_acquire(lock[threads[th].tr])
  /\ lock' = [lock EXCEPT ![threads[th].tr] = th]
  /\ threads' = [threads EXCEPT ![th].pc = "locked"]
  /\ UNCHANGED <<transformers, translator_instance, built, en2mr, mr2en, loaded>>
  /\ UNCHANGED <<env, fn, health, service>>

\* _load, in the block: a stored pair is returned and the lock released;
\* with no stored pair the thread starts from_pretrained, holding the lock.
load_check(th) ==
  /\ threads[th].pc = "locked"
  /\ IF StoredPair(threads[th].tr, threads[th].dir) # 0
     THEN /\ threads' = [threads EXCEPT
                ![th].pc = "generate",
                ![th].pair = StoredPair(threads[th].tr, threads[th].dir)]
          /\ lock' = [lock EXCEPT ![threads[th].tr] = 0]
     ELSE /\ threads' = [threads EXCEPT ![th].pc = "loading"]
          /\ UNCHANGED lock
  /\ UNCHANGED <<transformers, translator_instance, built, en2mr, mr2en, loaded>>
  /\ UNCHANGED <<env, fn, health, service>>

\* _load, in the block: from_pretrained returned the tokenizer and the
\* model; the pair is stored in the direction's slot and returned, and the
\* lock is released. A pair is named by the number of the load that made it.
load_store(th) ==
  /\ threads[th].pc = "loading"
  /\ LET d == threads[th].dir
         i == threads[th].tr
         pair == loaded[d] + 1
     IN /\ loaded' = [loaded EXCEPT ![d] = pair]
        /\ en2mr' = IF d = "en-mr" THEN [en2mr EXCEPT ![i] = pair] ELSE en2mr
        /\ mr2en' = IF d = "en-mr" THEN mr2en ELSE [mr2en EXCEPT ![i] = pair]
        /\ threads' = [threads EXCEPT ![th].pc = "generate", ![th].pair = pair]
        /\ lock' = [lock EXCEPT ![i] = 0]
  /\ UNCHANGED <<transformers, translator_instance, built>>
  /\ UNCHANGED <<env, fn, health, service>>

\* _load, in the block: from_pretrained (or mdl.to) raised; the slot stays
\* None, the lock is released, and translate answers with
\* heuristic_fallback.
load_raise(th) ==
  /\ threads[th].pc = "loading"
  /\ threads' = [threads EXCEPT ![th].pc = "returned", ![th].result = "fallback"]
  /\ lock' = [lock EXCEPT ![threads[th].tr] = 0]
  /\ UNCHANGED <<transformers, translator_instance, built, en2mr, mr2en, loaded>>
  /\ UNCHANGED <<env, fn, health, service>>

\* translate with the pair in hand: tokenize, generate and decode give the
\* model's text, or raise (torch missing, generation failure) and
\* heuristic_fallback answers.
translate_generate(th) ==
  /\ threads[th].pc = "generate"
  /\ \E outcome \in {"model", "fallback"} :
       threads' = [threads EXCEPT ![th].pc = "returned", ![th].result = outcome]
  /\ UNCHANGED <<transformers, translator_instance, built, lock, en2mr, mr2en, loaded>>
  /\ UNCHANGED <<env, fn, health, service>>

\* translate_text has returned; the thread may call it again.
translate_return(th) ==
  /\ threads[th].pc = "returned"
  /\ threads' = [threads EXCEPT ![th] = IdleThread]
  /\ UNCHANGED <<transformers, translator_instance, built, lock, en2mr, mr2en, loaded>>
  /\ UNCHANGED <<env, fn, health, service>>

NextLoader ==
  \/ \E th \in Threads : get_translator(th)
  \/ \E th \in Threads : get_translator_store(th)
  \/ \E th \in Threads : get_translator_return(th)
  \/ \E th \in Threads : IndicTranslator_translate(th)
  \/ \E th \in Threads : load_enter(th)
  \/ \E th \in Threads : load_check(th)
  \/ \E th \in Threads : load_store(th)
  \/ \E th \in Threads : load_raise(th)
  \/ \E th \in Threads : translate_generate(th)
  \/ \E th \in Threads : translate_return(th)

SpecLoader == InitLoader /\ [][NextLoader]_vars

(***************************************************************************)
(* The properties of the service.                                          *)
(***************************************************************************)

\* The values of translation_method in the answers of translate.
Methods == {"dictionary", "cache", "comprehensive_api", "fallback_message"}

\* The request in progress was answered after every method was called on
\* every variant and no result was accepted.
ChainExhausted ==
  pc = "done" /\ invoked # <<>> /\ ~invoked[Len(invoked)][3]

\* The request in progress was answered with the result of a provider.
AcceptedByProvider ==
  pc = "done" /\ invoked # <<>> /\ invoked[Len(invoked)][3]

\* C1: a POST /translate whose text is not empty once trimmed is answered
\* with status 200 whatever the backends do, and when every method was
\* called on every variant and nothing was accepted the answer has method
\* `fallback` and its translated_text is the fallback message around the
\* text.
C1_Original ==
  (pc = "done" /\ Strip(request.text) # <<>>) =>
    /\ last.status = 200
    /\ ChainExhausted =>
         /\ last.method = "fallback"
         /\ last.translated_text =
              FallbackPrefix \o Strip(request.text) \o FallbackSuffix

\* Two operations have the same arguments.
SameArguments(a, b) ==
  /\ a.text = b.text
  /\ a.source_lang = b.source_lang
  /\ a.target_lang = b.target_lang

\* This step answers a translate whose arguments are those of the operation
\* completed just before it, a translate too.
TwiceInARow ==
  /\ pc # "done"
  /\ pc' = "done"
  /\ last'.op = "translate"
  /\ last'.status = 200
  /\ last.op = "translate"
  /\ last.status = 200
  /\ SameArguments(last, last')

\* The second answer repeats the first and comes from the cache.
SameAnswerFromCache ==
  /\ last'.translated_text = last.translated_text
  /\ last'.source_language = last.source_language
  /\ last'.target_language = last.target_language
  /\ last'.method = "cache"

\* C2: translate called twice in a row with the same arguments gives the
\* same translated_text, source_language and target_language both times, and
\* the second method is cache, whatever tier answered the first call.
C2_Original == [][TwiceInARow => SameAnswerFromCache]_vars

\* C3: the calls of one request are made in one order, the methods of
\* translation_methods in list order on the first variant, then on the
\* next; the same for every request; and an accepted result is the last
\* call of the request: the request is answered with it and no method and
\* no variant after it is called.
C3_ShortCircuit ==
  \A i \in 1..Len(invoked) :
    /\ invoked[i][1] = ((i - 1) \div Len(translation_methods)) + 1
    /\ invoked[i][2] = ((i - 1) % Len(translation_methods)) + 1
    /\ invoked[i][3] =>
         /\ i = Len(invoked)
         /\ pc = "done"
         /\ last.method = "comprehensive_api"

\* The first method failed and the second was accepted.
C3_Witness ==
  /\ pc = "done"
  /\ Len(invoked) = 2
  /\ ~invoked[1][3]
  /\ invoked[2][3]

\* The method the contract gives the answer of each provider.
ProviderMethod ==
  <<"provider:googletrans", "provider:deep_translator",
    "provider:google_free", "provider:mymemory", "provider:microsoft",
    "provider:bing", "provider:lingva", "provider:libre",
    "provider:apertium">>

\* C4: an answer that is the result of a provider has method
\* provider:<name> for the provider that gave the accepted result, and the
\* method of every answer is one of dictionary, cache, provider:<name> and
\* fallback.
C4_Original ==
  (last.op = "translate" /\ last.status = 200) =>
    /\ last.method \in {"dictionary", "cache", "fallback"}
                          \cup {ProviderMethod[i] : i \in 1..Len(ProviderMethod)}
    /\ AcceptedByProvider =>
         last.method = ProviderMethod[invoked[Len(invoked)][2]]

\* A request for a key of en_to_mr, from English to Marathi.
KeyRequest(req) ==
  /\ HasKey(en_to_mr, req.text)
  /\ req.source_lang = EN
  /\ req.target_lang = MR

\* The dictionary gives every key of en_to_mr its value.
EveryKeyLookedUp ==
  \A k \in 1..Len(en_to_mr) :
    translate_with_dictionary(en_to_mr[k][1], EN, MR) = en_to_mr[k][2]

\* C5 (as the code has it): the dictionary gives every key p of en_to_mr
\* the value of the table, and translate(p, en, mr) is answered at once
\* with that value as translated_text; the method is dictionary when the
\* cache has no entry for the request and cache when it has one.
C5_DictionaryOrCache ==
  [][/\ EveryKeyLookedUp
     /\ (pc = "idle" /\ pc' # "idle" /\ KeyRequest(request')) =>
          /\ pc' = "done"
          /\ last'.status = 200
          /\ last'.translated_text = Lookup(en_to_mr, request'.text)
          /\ last'.method =
               IF HasKey(translation_cache, cache_key(request'.text, EN, MR))
               THEN "cache" ELSE "dictionary"]_vars

\* A key of two words answered from the cache: the second request for it.
C5_Witness ==
  /\ pc = "done"
  /\ KeyRequest(request)
  /\ request.text = T_good_morning
  /\ last.method = "cache"
  /\ last.translated_text = Lookup(en_to_mr, T_good_morning)

\* C5 as stated: the method is dictionary in any state of the service.
C5_Original ==
  [][(pc = "idle" /\ pc' # "idle" /\ KeyRequest(request')) =>
       /\ last'.translated_text = Lookup(en_to_mr, request'.text)
       /\ last'.method = "dictionary"]_vars

\* C6: POST /clear-cache empties the cache and reports the size it had; a
\* GET /stats right after it reports cache_size 0; and a translate right
\* after it is not answered from the cache.
C6_ClearCache ==
  [][/\ (last'.op = "clear" /\ last' # last) =>
          /\ translation_cache' = <<>>
          /\ last'.removed = Len(translation_cache)
          /\ last'.cache_size = 0
     /\ (last.op = "clear" /\ last'.op = "stats") =>
          /\ last'.cache_size = 0
          /\ last'.cached_translations = <<>>
     /\ (last.op = "clear" /\ pc # "done" /\ pc' = "done") =>
          last'.method # "cache"]_vars

\* The cache held two entries when it was cleared.
C6_Witness ==
  /\ last.op = "clear"
  /\ last.removed = 2
  /\ translation_cache = <<>>

\* C7: a POST /translate whose text is empty or only whitespace is answered
\* with status 400 and nothing else happens: no language is detected, no
\* variant is built, no method is called, and the cache and api_call_count
\* are as they were.
C7_EmptyRejected ==
  [][(pc = "idle" /\ pc' # "idle" /\ Strip(request'.text) = <<>>) =>
       /\ pc' = "done"
       /\ last'.op = "translate"
       /\ last'.status = 400
       /\ last'.translated_text = None
       /\ detected_lang' = None
       /\ cur_variants' = <<>>
       /\ invoked' = <<>>
       /\ UNCHANGED <<translation_cache, api_call_count>>]_vars

\* A text of two spaces was rejected.
C7_Witness ==
  /\ pc = "done"
  /\ request.text = T_blank
  /\ last.status = 400

\* C8 as stated: the resolved source and target languages of every answer
\* differ.
C8_Original ==
  (pc = "done" /\ last.op = "translate" /\ last.status = 200) =>
    last.source_language # last.target_language

\* A text has a code point of U+0900..U+097F.
HasCodePointOfBlock(s) == \E k \in 1..Len(s) : s[k] \in 2304..2431

\* C9: detect_language and advanced_language_detection return mr for every
\* text with at least one code point of U+0900..U+097F, whatever else the
\* text holds and whatever langdetect does.
C9_DevanagariIsMarathi ==
  (/\ fn_result.fn \in {"detect_language", "advanced_language_detection"}
   /\ HasCodePointOfBlock(fn_text))
    => fn_result.value = MR

\* A sentence of English words with U+0900 alone put after it, which
\* langdetect calls English.
C9_Witness ==
  /\ fn_text = InsertAt(T_sentence, Len(T_sentence), 2304)
  /\ fn_result.fn = "advanced_language_detection"
  /\ fn_result.ld = "en"
  /\ fn_result.value = MR

\* C10 as stated: the Marathi text the dictionary returns for a key of
\* en_to_mr is resolved by the dictionary from Marathi to English.
C10_Original ==
  (/\ fn_result.fn = "translate_with_dictionary"
   /\ fn_result.origin # None
   /\ HasKey(en_to_mr, fn_result.origin)
   /\ fn_result.source_lang = MR)
    => fn_result.value # None

\* A keyword of a condition of the language occurs in the lowercased query.
KnowledgeBaseMatches(query, language) ==
  \E i \in 1..Len(condition_keywords(language)) :
    \E k \in 1..Len(condition_keywords(language)[i][2]) :
      Contains(condition_keywords(language)[i][2][k], Lower(query))

\* C11: process_health_query returns a response for every query and
\* language and never raises; a query with a keyword of the knowledge base
\* is answered from the knowledge base and the LLM is not invoked for it;
\* without an LLM the answer is the canned text, and an LLM that raises or
\* returns a content that is not a text yields the canned text as well.
C11_HealthAnswered ==
  (health_last.source # "") =>
    /\ health_last.source \in {"knowledge_base", "ai", "fallback"}
    /\ health_last.response.kind \in {"formatted", "canned", "llm"}
    /\ KnowledgeBaseMatches(health_last.query, health_last.language) =>
         /\ health_last.source = "knowledge_base"
         /\ health_last.response.kind = "formatted"
         /\ ~health_last.llm_invoked
    /\ health_last.llm_invoked =>
         /\ ~KnowledgeBaseMatches(health_last.query, health_last.language)
         /\ health_last.source = "ai"
    /\ (~llm /\ health_last.source # "knowledge_base") =>
         /\ health_last.source = "fallback"
         /\ health_last.response =
              get_fallback_response(health_last.language)
    /\ (health_last.llm_invoked /\ health_last.out \in {Raise, NonString}) =>
         health_last.response = get_fallback_response(health_last.language)

\* The LLM was invoked for a query without a keyword and raised; the
\* answer is the canned English text.
C11_Witness ==
  /\ health_last.query = Q_hello
  /\ health_last.language = EN
  /\ health_last.llm_invoked
  /\ health_last.out = Raise
  /\ health_last.response = [kind |-> "canned", template |-> "en", body |-> <<>>]

\* This step is a call of the method at mi on the variant at vi that came
\* back without an accepted result.
CallRejected ==
  /\ pc = "chain"
  /\ Len(invoked') = Len(invoked) + 1
  /\ ~invoked'[Len(invoked')][3]

\* What follows a call without an accepted result: the next method on the
\* same variant; after the last method the first one on the next variant;
\* after the last variant the fallback answer.
NextInOrder ==
  IF mi < Len(translation_methods)
  THEN pc' = "chain" /\ vi' = vi /\ mi' = mi + 1
  ELSE IF vi < Len(cur_variants)
  THEN pc' = "chain" /\ vi' = vi + 1 /\ mi' = 1
  ELSE pc' = "done" /\ last'.method = "fallback_message"

\* C12: a method whose backend call failed (it raised or timed out, the
\* status was not 200, the payload was malformed) has produced no result:
\* its call is recorded as not accepted, the next method in list order is
\* called on the same variant (after the last method, the next variant or
\* the fallback answer follows), and the request is answered with status
\* 200.
C12_FailureIsAbsence ==
  [][/\ (pc = "chain" /\ invoked' # invoked /\ call_outcome' = "failed") =>
          CallRejected
     /\ CallRejected =>
          /\ NextInOrder
          /\ UNCHANGED <<cur_variants, translation_cache, request>>
     /\ (pc = "chain" /\ pc' = "done") =>
          /\ last'.op = "translate"
          /\ last'.status = 200]_vars

\* translate_with_microsoft failed on the first variant and
\* translate_with_bing is the next to be called on it.
C12_Witness ==
  /\ pc = "chain"
  /\ call_outcome = "failed"
  /\ Len(invoked) = 5
  /\ invoked[5] = <<1, 5, FALSE>>
  /\ vi = 1
  /\ translation_methods[mi] = "bing"

\* The number of code points of a text outside ASCII.
NonAsciiCount(s) == Cardinality({k \in 1..Len(s) : s[k] > 127})

\* C13 as stated: a provider result that is returned and cached has at
\* least one Devanagari code point when the target is Marathi, and at most
\* 30% of code points outside ASCII when the target is English.
C13_Original ==
  AcceptedByProvider =>
    /\ Lookup(translation_cache,
              cache_key(cur_text, detected_lang, auto_target))
         = last.translated_text
    /\ auto_target = MR => HasDevanagari(last.translated_text)
    /\ auto_target = EN =>
         10 * NonAsciiCount(last.translated_text)
           <= 3 * Len(last.translated_text)

\* The order of the tiers.
TierOrder == <<"cache", "dictionary", "providers", "fallback">>

\* The first n tiers.
FirstTiers(n) == SubSeq(TierOrder, 1, n)

\* This step answers a translate with status 200.
Answered ==
  /\ pc # "done"
  /\ pc' = "done"
  /\ last'.op = "translate"
  /\ last'.status = 200

\* C14: the tiers are consulted in the order cache, dictionary, providers,
\* fallback.  A request answered from the cache has consulted the cache
\* alone: no provider is called and the cache and api_call_count are as
\* they were.  A request answered by the dictionary has consulted the cache
\* and the dictionary and no provider.
C14_TierOrder ==
  [][/\ \E n \in 0..Len(TierOrder) : consulted' = FirstTiers(n)
     /\ Answered =>
          /\ last'.method = "cache" =>
               /\ consulted' = FirstTiers(1)
               /\ invoked' = <<>>
               /\ UNCHANGED <<translation_cache, api_call_count>>
          /\ last'.method = "dictionary" =>
               /\ consulted' = FirstTiers(2)
               /\ invoked' = <<>>
               /\ UNCHANGED api_call_count
          /\ last'.method = "comprehensive_api" =>
               /\ consulted' = FirstTiers(3)
               /\ invoked' # <<>>
          /\ last'.method = "fallback_message" =>
               /\ consulted' = FirstTiers(4)
               /\ invoked' # <<>>]_vars

\* A provider result that was cached is answered from the cache: the
\* dictionary, which has nothing for the text, was not asked.
C14_Witness ==
  /\ pc = "done"
  /\ last.method = "cache"
  /\ consulted = <<"cache">>
  /\ last.translated_text = DEV_RESULT
  /\ translate_with_dictionary(cur_text, detected_lang, auto_target) = None

\* No method was called twice on one variant for the request in progress.
OncePerVariant ==
  \A i, j \in 1..Len(invoked) :
    (invoked[i][1] = invoked[j][1] /\ invoked[i][2] = invoked[j][2]) => i = j

\* C15: every translate that reaches the providers is answered, with one
\* of the four methods, after at most |variants| x |methods| calls, each
\* method being called at most once on each variant (every provider call
\* returning: the calls of googletrans and deep_translator, which the code
\* does not bound by a timeout, are assumed to return).
C15_Terminates ==
  /\ [](/\ OncePerVariant
        /\ Len(invoked) <= Len(cur_variants) * Len(translation_methods)
        /\ pc = "chain" =>
             Len(invoked) < Len(cur_variants) * Len(translation_methods)
        /\ (pc = "done" /\ last.status = 200) => last.method \in Methods)
  /\ WF_vars(InvokeChecked) => ((pc = "chain") ~> (pc = "done"))

\* In a process that has langdetect and indic_transliteration, a request
\* with source auto and two variants (the text and a conversion of it) is
\* answered with the fallback message after eighteen calls.
C15_Witness ==
  /\ pc = "done"
  /\ LANGDETECT_AVAILABLE
  /\ INDIC_AVAILABLE
  /\ request.source_lang = AUTO
  /\ Len(cur_variants) = 2
  /\ cur_variants[2] \in {CONVERTED[k] : k \in 1..MaxConversions}
  /\ Len(invoked) = 2 * Len(translation_methods)
  /\ last.method = "fallback_message"

\* C16: while a translate is in a provider call, or in the wait between
\* two requests of one provider, another /translate, a /stats and a
\* /clear-cache can be served.  (translate and translate_text are
\* coroutines that never await inside the chain: the providers call
\* requests.get, session.post and time.sleep, which hold the one thread of
\* the event loop until the translate has its answer.)
C16_Original ==
  pc = "chain" =>
    /\ ENABLED translate_text
    /\ ENABLED get_stats
    /\ ENABLED clear_cache

\* C17: a provider is requested once for a variant of a request: no
\* request to a backend follows a failed request to the same backend for
\* the same variant.  (attempt counts the failed requests of the
\* translate_with_mymemory call in progress.)
C17_Original == attempt = 0

\* This step is a POST /clear-cache.
ClearStep ==
  /\ pc = "idle"
  /\ pc' = "idle"
  /\ last'.op = "clear"
  /\ last' # last

\* Every entry of the cache is an entry of the cache after the step, at
\* its place and with its value.
EntriesKept ==
  /\ Len(translation_cache') >= Len(translation_cache)
  /\ \A i \in 1..Len(translation_cache) :
       translation_cache'[i] = translation_cache[i]

\* C18: an entry of the cache stays, with its value, through every step of
\* a /translate, a /health and a /stats; only POST /clear-cache removes
\* entries.
C18_EntriesKept ==
  [][ClearStep \/ EntriesKept]_vars

\* A translate has added a second entry to the cache, after the first.
C18_Witness ==
  /\ pc = "done"
  /\ last.op = "translate"
  /\ last.method \in {"dictionary", "comprehensive_api"}
  /\ Len(translation_cache) = 2
  /\ translation_cache[2][1] = cache_key(cur_text, detected_lang, auto_target)
  /\ translation_cache[1][1] # translation_cache[2][1]

\* The key of the cache for text t of a request from source to target:
\* the text trimmed and in lower case, then the two languages.
RequestKey(t, source, target) ==
  Lower(Strip(t)) \o UNDERSCORE \o source \o UNDERSCORE \o target

\* The cache holds a key and a value that come from a request of a client:
\* the key is the key of a text a client sends, and the value is not the
\* fallback message for it.
FromRequests(cache) ==
  \A i \in 1..Len(cache) :
    \E t \in client_texts :
      /\ \E source, target \in {EN, MR} :
           cache[i][1] = RequestKey(t, source, target)
      /\ cache[i][2] # fallback_msg(Strip(t))

\* C19: every entry of the cache has the key of a request as the client
\* sent it (text trimmed and in lower case, resolved source, resolved
\* target).  The cache is written only by a translate answered by the
\* dictionary or by an accepted provider result, and the entry written is
\* the key of that request with the translated_text of the answer: also
\* when the result was obtained on a romanized variant.  An answer with
\* the fallback message writes nothing.
C19_CacheContents ==
  /\ [](FromRequests(translation_cache))
  /\ [][/\ (translation_cache' # translation_cache /\ ~ClearStep) =>
             /\ pc' = "done"
             /\ last'.op = "translate"
             /\ last'.status = 200
             /\ last'.method \in {"dictionary", "comprehensive_api"}
             /\ translation_cache' =
                  Append(translation_cache,
                         <<RequestKey(request'.text, last'.source_language,
                                      last'.target_language),
                           last'.translated_text>>)
        /\ (pc # "done" /\ pc' = "done" /\ last'.method = "fallback_message") =>
             UNCHANGED translation_cache]_vars

\* A result accepted on the second variant (the text converted to
\* Devanagari) is in the cache under the text of the request.
C19_Witness ==
  /\ AcceptedByProvider
  /\ vi = 2
  /\ cur_variants[2] # cur_text
  /\ Lookup(translation_cache,
            RequestKey(request.text, detected_lang, auto_target))
       = last.translated_text
  /\ ~HasKey(translation_cache,
             Lower(cur_variants[2]) \o UNDERSCORE \o detected_lang
               \o UNDERSCORE \o auto_target)

\* No text is twice in the list.
NoDuplicates(list) ==
  \A i, j \in 1..Len(list) : list[i] = list[j] => i = j

\* C20: the texts tried on the providers are the text of the request
\* alone, unless the resolved source is mr and the text has no Devanagari:
\* then they are the text and at most one converted text after it.  The
\* list starts with the text of the request and holds no text twice.
\* (comprehensive_transliteration does not look at the source language: an
\* English request whose words are in the romanized word list is tried in
\* a converted spelling too, and with indic_transliteration present every
\* scheme may add a text.)
C20_Original ==
  pc = "chain" =>
    /\ cur_variants[1] = cur_text
    /\ NoDuplicates(cur_variants)
    /\ IF detected_lang = MR /\ ~HasDevanagari(cur_text)
       THEN Len(cur_variants) <= 2
       ELSE cur_variants = <<cur_text>>

\* A letter of a text in lower case without Devanagari.
IsLatinLetter(c) == c \in 97..122

\* The tokens of s from position i on, cur being the letters of the token
\* in progress: s is cut at every code point that is not a letter.
RECURSIVE TokensFrom(_, _, _)
TokensFrom(s, i, cur) ==
  IF i > Len(s) THEN (IF cur = <<>> THEN <<>> ELSE <<cur>>)
  ELSE IF IsLatinLetter(s[i]) THEN TokensFrom(s, i + 1, Append(cur, s[i]))
  ELSE (IF cur = <<>> THEN <<>> ELSE <<cur>>) \o TokensFrom(s, i + 1, <<>>)

\* The tokens of a text: in lower case, cut at what is not a letter.
Tokens(text) == TokensFrom(Lower(text), 1, <<>>)

\* How many tokens are clue words.
ClueCount(tokens) ==
  Cardinality({i \in 1..Len(tokens) : InList(marathi_words, tokens[i])})

\* One clue word for three words, and one at least.
ClueThreshold(n) == IF n <= 3 THEN 1 ELSE n \div 3

\* C21: for a text without Devanagari, detect_language answers mr exactly
\* when the tokens of the text that are clue words are at least one for
\* three tokens (and one at least), and en otherwise.
\* (detect_language answers mr for a text of question marks, counts the
\* clue words that occur anywhere in the text as substrings, and asks for two
\* of them in a text of two words or more.)
C21_Original ==
  (fn_result.fn = "detect_language" /\ ~HasDevanagari(fn_text)) =>
    (fn_result.value = MR
       <=> ClueCount(Tokens(fn_text)) >= ClueThreshold(Len(Tokens(fn_text))))

\* A text trimmed, in lower case, with every run of whitespace inside it
\* made one space.
Normalized(text) == JoinSpace(Split(Strip(Lower(text))))

\* C22: the lookup from English to Marathi returns the value of the key
\* that the text equals once trimmed, put in lower case and with its runs
\* of whitespace collapsed, and None when that text is no key.
\* (translate_with_dictionary trims and lowers the text and leaves the
\* whitespace inside it as typed.)
C22_Original ==
  (/\ fn_result.fn = "translate_with_dictionary"
   /\ fn_result.origin = None
   /\ fn_result.source_lang = EN
   /\ fn_result.target_lang = MR) =>
    fn_result.value =
      IF HasKey(en_to_mr, Normalized(fn_text))
      THEN Lookup(en_to_mr, Normalized(fn_text)) ELSE None

\* The punctuation marks: ! , . : ; ? and the danda.
Punctuation == {33, 44, 46, 58, 59, 63, 2404}

\* s without the punctuation marks (and the whitespace) at its end.
RECURSIVE StripTrailingPunctuation(_)
StripTrailingPunctuation(s) ==
  IF s # <<>> /\ (s[Len(s)] \in Punctuation \/ IsSpace(s[Len(s)]))
  THEN StripTrailingPunctuation(SubSeq(s, 1, Len(s) - 1))
  ELSE s

\* C23: the lookup from Marathi to English, given a trimmed text, answers
\* with the first rule that applies: the text is a key (of the Devanagari
\* table, or of the romanized table once lowered); or the text without
\* its trailing punctuation is a key.  A key followed by punctuation alone
\* gets the translation of the key.
\* (translate_with_dictionary strips no punctuation: a one-word key
\* followed by a mark is in no table and gets None.)
C23_Original ==
  (/\ fn_result.fn = "translate_with_dictionary"
   /\ fn_result.origin = None
   /\ fn_result.source_lang = MR
   /\ fn_result.target_lang = EN
   /\ fn_text = Strip(fn_text)) =>
    LET bare == StripTrailingPunctuation(fn_text)
    IN  IF HasKey(mr_to_en, fn_text)
        THEN fn_result.value = Lookup(mr_to_en, fn_text)
        ELSE IF HasKey(romanized_mr_to_en, Lower(fn_text))
        THEN fn_result.value = Lookup(romanized_mr_to_en, Lower(fn_text))
        ELSE IF HasKey(mr_to_en, bare)
        THEN fn_result.value = Lookup(mr_to_en, bare)
        ELSE IF HasKey(romanized_mr_to_en, Lower(bare))
        THEN fn_result.value = Lookup(romanized_mr_to_en, Lower(bare))
        ELSE TRUE

\* The entries <<phrase, translation>> of the two tables from Marathi
\* whose phrase has two words or more and occurs in the text (the
\* romanized phrases in the text lowered).
MatchingPhrases(text) ==
  {mr_to_en[i] : i \in {k \in 1..Len(mr_to_en) :
      /\ Len(Split(mr_to_en[k][1])) >= 2
      /\ Contains(mr_to_en[k][1], text)}}
  \cup
  {romanized_mr_to_en[i] : i \in {k \in 1..Len(romanized_mr_to_en) :
      /\ Len(Split(romanized_mr_to_en[k][1])) >= 2
      /\ Contains(romanized_mr_to_en[k][1], Strip(Lower(text)))}}

\* The translations of the longest phrases among the entries.
LongestTranslations(entries) ==
  {e[2] : e \in {m \in entries :
     \A other \in entries : Len(other[1]) <= Len(m[1])}}

\* The text is for the substring rule: it is no key itself, it has two
\* words or more, and a phrase of two words or more occurs in it.
SubstringRuleApplies(text) ==
  /\ ~IsGarbled(text)
  /\ ~HasKey(mr_to_en, text)
  /\ ~HasKey(romanized_mr_to_en, Strip(Lower(text)))
  /\ Len(Split(text)) >= 2
  /\ MatchingPhrases(text) # {}

\* C24: when several phrases of two words or more occur in a text from
\* Marathi of two words or more, the lookup returns the translation of the
\* longest of them.
\* (The Devanagari phrases are tried in the order of the table and before
\* the romanized ones; only the romanized phrases are sorted by length.)
C24_Original ==
  (/\ fn_result.fn = "translate_with_dictionary"
   /\ fn_result.origin = None
   /\ fn_result.source_lang = MR
   /\ fn_result.target_lang = EN
   /\ SubstringRuleApplies(fn_text)) =>
    fn_result.value \in LongestTranslations(MatchingPhrases(fn_text))

\* The word-by-word loop resolves a word: the word is a key of
\* romanized_mr_to_en, or it holds or is held in a key of four letters or
\* more.
Resolves(word) ==
  \/ HasKey(romanized_mr_to_en, word)
  \/ \E i \in 1..Len(romanized_mr_to_en) :
       /\ Len(romanized_mr_to_en[i][1]) >= 4
       /\ \/ Contains(word, romanized_mr_to_en[i][1])
          \/ Contains(romanized_mr_to_en[i][1], word)

\* How many of the words are resolved.
ResolvedCount(words) ==
  Cardinality({i \in 1..Len(words) : Resolves(words[i])})

\* A rule before word-by-word answers for the text: it is garbled, it is
\* a key, or a phrase of two words or more occurs in it.
EarlierRuleApplies(text) ==
  \/ IsGarbled(text)
  \/ HasKey(mr_to_en, text)
  \/ HasKey(romanized_mr_to_en, Strip(Lower(text)))
  \/ (Len(Split(text)) >= 2 /\ MatchingPhrases(text) # {})

\* The lookup from Marathi to English was called on a text that no rule
\* before word-by-word answers for.
WordByWordCase ==
  /\ fn_result.fn = "translate_with_dictionary"
  /\ fn_result.origin = None
  /\ fn_result.source_lang = MR
  /\ fn_result.target_lang = EN
  /\ ~EarlierRuleApplies(fn_text)

\* C25: word-by-word substitution answers only for a text of three words
\* or more of which 70% at least were resolved; for any other text that
\* no earlier rule answers for the lookup returns None.
C25_WordByWord ==
  WordByWordCase =>
    LET words == Split(Strip(Lower(fn_text)))
    IN  fn_result.value # None <=>
          /\ Len(words) >= 3
          /\ 10 * ResolvedCount(words) >= 7 * Len(words)

\* Three words of four resolved: the substitution is returned, with the
\* fourth word as it was.
C25_Witness ==
  /\ WordByWordCase
  /\ Len(Split(fn_text)) = 4
  /\ ResolvedCount(Split(Strip(Lower(fn_text)))) = 3
  /\ fn_result.value # None
  /\ fn_result.value # fn_text

\* A text with a space for every code point that is not a letter (Latin
\* or Devanagari), and a space at each end.
Padded(text) ==
  <<32>> \o [i \in 1..Len(text) |->
               IF IsLatinLetter(text[i]) \/ IsDevanagari(text[i])
               THEN text[i] ELSE 32] \o <<32>>

\* The phrase occurs in the text as whole words.
WholeWordOccurs(phrase, text) ==
  Contains(<<32>> \o phrase \o <<32>>, Padded(text))

\* C26: romanized_to_devanagari returns a text in which no phrase of its
\* table occurs as whole words (in either letter case) as it was given,
\* code point for code point: a phrase that occurs inside a longer word is
\* not substituted.
\* (The manual mapping lowers the text and replaces every occurrence of a
\* phrase with str.replace, inside words too.)
C26_Original ==
  (/\ fn_result.fn = "romanized_to_devanagari"
   /\ \A i \in 1..Len(romanized_to_devanagari_map) :
        ~WholeWordOccurs(romanized_to_devanagari_map[i][1], Lower(fn_text))) =>
    fn_result.value = fn_text

\* C27: from the cache check of a translate to its answer, the cache
\* changes only by the write of that translate: the key it checked, absent
\* at the check, is still absent at the write, and the write adds it with
\* the answer.  No clear-cache and no write of another request comes in
\* between, and no entry is overwritten with another value.
\* (translate does not await between the check and the write, so the event
\* loop runs no other handler in between.)
C27_CheckThenWrite ==
  [][/\ (pc = "chain" /\ translation_cache' # translation_cache) =>
          /\ pc' = "done"
          /\ ~HasKey(translation_cache,
                     cache_key(cur_text, detected_lang, auto_target))
          /\ translation_cache' =
               Append(translation_cache,
                      <<cache_key(cur_text, detected_lang, auto_target),
                        last'.translated_text>>)
     /\ pc = "chain" =>
          ~HasKey(translation_cache,
                  cache_key(cur_text, detected_lang, auto_target))
     /\ \A i \in 1..Len(translation_cache) :
          HasKey(translation_cache', translation_cache[i][1]) =>
            Lookup(translation_cache', translation_cache[i][1])
              = translation_cache[i][2]]_vars

\* A translate that found the cache holding an entry of another key, made
\* three provider calls or more, and then wrote its own entry.
C27_Witness ==
  /\ AcceptedByProvider
  /\ Len(invoked) >= 3
  /\ Len(translation_cache) >= 2
  /\ translation_cache[Len(translation_cache)]
       = <<cache_key(cur_text, detected_lang, auto_target),
           last.translated_text>>

\* C28: two texts with one cache key (equal up to letter case and the
\* whitespace around them, for one source and one target) get the same
\* translated_text from the dictionary and the providers, the backends
\* answering the same: so that the entry one of them wrote is the answer
\* the other would have got.
\* (The acceptance test compares the result with the text as typed, and
\* the variants are built from the text as typed: a backend answer that
\* equals one spelling is rejected for that spelling and accepted for the
\* other.)
C28_Original ==
  (/\ fn_result.fn = "translate"
   /\ translate_uncached(fn_text, fn_result.source_lang, fn_result.target_lang,
                         fn_result.responses).method # "fallback_message") =>
    \A other \in FnTexts :
      cache_key(Strip(other), fn_result.source_lang, fn_result.target_lang)
        = cache_key(Strip(fn_text), fn_result.source_lang, fn_result.target_lang)
      => translate_uncached(other, fn_result.source_lang, fn_result.target_lang,
                            fn_result.responses).translated_text
           = fn_result.value

\* This step is a GET /health, a GET /stats or a POST /clear-cache.
EndpointStep ==
  /\ pc = "idle"
  /\ pc' = "idle"
  /\ last'.op \in {"health", "stats", "clear"}

\* C29: api_call_count never decreases.  It is left as it was by a
\* translate answered from the cache or by the dictionary, by GET /health,
\* by GET /stats and by POST /clear-cache: it changes only in a call of
\* translate_with_mymemory, by one.  GET /health leaves the cache as it
\* was too.
C29_CounterFrame ==
  [][/\ api_call_count' >= api_call_count
     /\ api_call_count' # api_call_count =>
          /\ pc = "chain"
          /\ translation_methods[mi] = "mymemory"
          /\ api_call_count' = api_call_count + 1
     /\ (Answered /\ last'.method \in {"cache", "dictionary"}) =>
          UNCHANGED api_call_count
     /\ EndpointStep => UNCHANGED api_call_count
     /\ (EndpointStep /\ last'.op = "health") =>
          /\ UNCHANGED translation_cache
          /\ last'.api_calls_made = api_call_count
          /\ last'.cache_size = Len(translation_cache)]_vars

\* GET /health answered in a service that has counted an API call and
\* holds a cache entry.
C29_Witness ==
  /\ pc = "idle"
  /\ last.op = "health"
  /\ last.api_calls_made > 0
  /\ api_call_count = last.api_calls_made
  /\ last.cache_size > 0
  /\ Len(translation_cache) = last.cache_size

\* C30: when several threads translate concurrently, each direction's model
\* (en-mr, mr-en) is loaded with success at most once in the process.
C30_Original == \A d \in Directions : loaded[d] <= 1

=============================================================================
